---- MODULE Spec2Model ----
(***************************************************************************)
(* Model of the Moodle admission exporter (moodle_admision_export.py and   *)
(* the Streamlit front end that drives it).                                *)
(*                                                                         *)
(* Conventions                                                             *)
(*  - a Python float that the program computes from question counts is a   *)
(*    fixed-point integer counted in 1/Unit: the fraction k/n is           *)
(*    (k * Unit) \div n, which is exact for every range size of AREA_DEFS; *)
(*  - a Python str that is compared with < (the sort keys) is a sequence   *)
(*    of character codes, compared lexicographically as Python does;       *)
(*  - None and the floats 0.0 / 0.2 of a question mark are records         *)
(*    [kind, x] with x counted in tenths.                                  *)
(***************************************************************************)
EXTENDS Integers, Sequences, FiniteSets, TLC

\* ------------------------------------------------------------------ bounds
MaxWorkers == 2
DayLen == 3
MaxStrLen == 3
MaxParts == 2
ActaRows == 2
BlockRows == 2

\* ------------------------------------------------------- number encoding
Unit == 100 * 105
Frac(p) == (p * Unit) \div 100

None == [kind |-> "None", x |-> 0]
Float(x) == [kind |-> "float", x |-> x]

Max(S) == CHOOSE m \in S : \A o \in S : o <= m

\* ------------------------------------------------------- str comparison
StrLT(a, b) ==
    \E k \in 1..Len(b) :
        /\ \A j \in 1..(k - 1) : j <= Len(a) /\ a[j] = b[j]
        /\ (k > Len(a) \/ a[k] < b[k])

StrLE(a, b) == a = b \/ StrLT(a, b)

\* ------------------------------------------------------- str operations
\* a str value, the float nan, and a value float() rejects with TypeError
Str(s) == [kind |-> "str", x |-> s]
NaN == [kind |-> "nan", x |-> 0]
Other == [kind |-> "other", x |-> 0]

Min(S) == CHOOSE m \in S : \A o \in S : m <= o

\* ch.isdigit() on the ASCII digits
IsDigit(c) == 48 <= c /\ c <= 57

\* str.upper() and str.lower() on Latin-1 letters
upper(s) ==
    LET UpperCh(c) ==
            IF (97 <= c /\ c <= 122) \/ (224 <= c /\ c <= 254 /\ c # 247) THEN c - 32 ELSE c
    IN  [i \in DOMAIN s |-> UpperCh(s[i])]

lower(s) ==
    LET LowerCh(c) ==
            IF (65 <= c /\ c <= 90) \/ (192 <= c /\ c <= 222 /\ c # 215) THEN c + 32 ELSE c
    IN  [i \in DOMAIN s |-> LowerCh(s[i])]

\* str.strip(): the blanks at both ends are removed
strip(s) ==
    LET ink == {i \in DOMAIN s : s[i] # 32}
    IN  IF ink = {} THEN <<>> ELSE SubSeq(s, Min(ink), Max(ink))

\* sub in s
Contains(sub, s) ==
    \E k \in 0..(Len(s) - Len(sub)) : \A j \in DOMAIN sub : s[k + j] = sub[j]

\* s.replace(old, new) for one-character old and new
replace(s, old, new) == [i \in DOMAIN s |-> IF s[i] = old THEN new ELSE s[i]]

\* s.split(sep) for a one-character sep
RECURSIVE split(_, _)
split(s, sep) ==
    LET at == {i \in DOMAIN s : s[i] = sep}
    IN  IF at = {} THEN <<s>>
        ELSE <<SubSeq(s, 1, Min(at) - 1)>> \o split(SubSeq(s, Min(at) + 1, Len(s)), sep)

\* the number written by a str of decimal digits
RECURSIVE DigitsValue(_)
DigitsValue(ds) ==
    IF ds = <<>> THEN 0
    ELSE 10 * DigitsValue(SubSeq(ds, 1, Len(ds) - 1)) + (ds[Len(ds)] - 48)

\* ------------------------------------------------- areas and sub-areas
r(a, b) == [i \in 1..(b - a + 1) |-> a + i - 1]

SUBS == <<"COMUNICACION", "MATEMATICA", "HABILIDADES COMUNICATIVAS", "CTA/CCSS">>
Subjects == {SUBS[i] : i \in DOMAIN SUBS}

AREA_DEFS_drop71 ==
    [A |-> [ranges |->
              [s \in Subjects |->
                 CASE s = "COMUNICACION" -> r(1, 21) \o r(97, 100)
                   [] s = "MATEMATICA" -> r(22, 70)
                   [] s = "HABILIDADES COMUNICATIVAS" -> r(72, 81)
                   [] OTHER -> r(82, 96)]],
     B |-> [ranges |->
              [s \in Subjects |->
                 CASE s = "COMUNICACION" -> r(1, 21) \o r(97, 100)
                   [] s = "MATEMATICA" -> r(22, 51)
                   [] s = "HABILIDADES COMUNICATIVAS" -> r(52, 61)
                   [] OTHER -> r(62, 96)]],
     C |-> [ranges |->
              [s \in Subjects |->
                 CASE s = "COMUNICACION" -> r(1, 31) \o r(97, 100)
                   [] s = "MATEMATICA" -> r(32, 61)
                   [] s = "HABILIDADES COMUNICATIVAS" -> r(62, 71)
                   [] OTHER -> r(72, 96)]]]

AREA_DEFS ==
    [A |-> [ranges |->
              [s \in Subjects |->
                 CASE s = "COMUNICACION" -> r(1, 21) \o r(97, 100)
                   [] s = "MATEMATICA" -> r(22, 71)
                   [] s = "HABILIDADES COMUNICATIVAS" -> r(72, 81)
                   [] OTHER -> r(82, 96)]],
     B |-> [ranges |->
              [s \in Subjects |->
                 CASE s = "COMUNICACION" -> r(1, 21) \o r(97, 100)
                   [] s = "MATEMATICA" -> r(22, 51)
                   [] s = "HABILIDADES COMUNICATIVAS" -> r(52, 61)
                   [] OTHER -> r(62, 96)]],
     C |-> [ranges |->
              [s \in Subjects |->
                 CASE s = "COMUNICACION" -> r(1, 31) \o r(97, 100)
                   [] s = "MATEMATICA" -> r(32, 61)
                   [] s = "HABILIDADES COMUNICATIVAS" -> r(62, 71)
                   [] OTHER -> r(72, 96)]]]

Areas == {"A", "B", "C"}

NIVEL_THRESHOLD == Frac(30)

max_questions == 100

CRITERIA_BY_AREA_swapB ==
    [a \in Areas |->
       [s \in Subjects |->
          CASE a = "A" -> (CASE s = "COMUNICACION" -> 25
                             [] s = "HABILIDADES COMUNICATIVAS" -> 10
                             [] s = "MATEMATICA" -> 50
                             [] OTHER -> 15)
            [] a = "B" -> (CASE s = "COMUNICACION" -> 25
                             [] s = "HABILIDADES COMUNICATIVAS" -> 10
                             [] s = "MATEMATICA" -> 35
                             [] OTHER -> 30)
            [] OTHER -> (CASE s = "COMUNICACION" -> 35
                             [] s = "HABILIDADES COMUNICATIVAS" -> 10
                             [] s = "MATEMATICA" -> 30
                             [] OTHER -> 25)]]

CRITERIA_BY_AREA ==
    [a \in Areas |->
       [s \in Subjects |->
          CASE a = "A" -> (CASE s = "COMUNICACION" -> 25
                             [] s = "HABILIDADES COMUNICATIVAS" -> 10
                             [] s = "MATEMATICA" -> 50
                             [] OTHER -> 15)
            [] a = "B" -> (CASE s = "COMUNICACION" -> 25
                             [] s = "HABILIDADES COMUNICATIVAS" -> 10
                             [] s = "MATEMATICA" -> 30
                             [] OTHER -> 35)
            [] OTHER -> (CASE s = "COMUNICACION" -> 35
                             [] s = "HABILIDADES COMUNICATIVAS" -> 10
                             [] s = "MATEMATICA" -> 30
                             [] OTHER -> 25)]]

\* ------------------------------------------------ marks and questions
\* float(s) for a str of digits, sign, point and blanks: blanks at the ends
\* are ignored, then [sign] digits [. digits] with at least one digit; x is
\* the value counted in 10^-(number of decimals), so its sign is the value's
float_str(s) ==
    LET t == strip(s)
        signed == t # <<>> /\ t[1] \in {43, 45}
        body == IF signed THEN Tail(t) ELSE t
        digits == SelectSeq(body, IsDigit)
        ok == /\ \A i \in DOMAIN body : IsDigit(body[i]) \/ body[i] = 46
              /\ Cardinality({i \in DOMAIN body : body[i] = 46}) <= 1
              /\ digits # <<>>
        mag == DigitsValue(digits)
    IN  [ok |-> ok, nan |-> FALSE,
         x |-> IF ~ok THEN 0 ELSE IF signed /\ t[1] = 45 THEN 0 - mag ELSE mag]

\* float(value) inside "try: ... except: return None"
float_of(value) ==
    CASE value.kind = "str" -> float_str(value.x)
      [] value.kind = "nan" -> [ok |-> TRUE, nan |-> TRUE, x |-> 0]
      [] value.kind \in {"float", "int"} -> [ok |-> TRUE, nan |-> FALSE, x |-> value.x]
      [] OTHER -> [ok |-> FALSE, nan |-> FALSE, x |-> 0]

to_02_nocomma(value) ==
    IF value.kind = "None" THEN None
    ELSE LET f == float_of(value)
         IN  IF ~f.ok THEN None
             ELSE IF ~f.nan /\ f.x > 0 THEN Float(2) ELSE Float(0)

\* to_02: None stays None; a str has its commas turned into points; a value
\* float() rejects is None; a number > 0 is 0.2, any other number is 0.0
to_02(value) ==
    IF value.kind = "None" THEN None
    ELSE LET v == IF value.kind = "str" THEN Str(replace(value.x, 44, 46)) ELSE value
             f == float_of(v)
         IN  IF ~f.ok THEN None
             ELSE IF ~f.nan /\ f.x > 0 THEN Float(2) ELSE Float(0)

count_correct(vals) ==
    Cardinality({k \in DOMAIN vals : vals[k].kind # "None" /\ vals[k].x = 2})

count_responded(vals) ==
    Cardinality({k \in DOMAIN vals :
                    vals[k].kind # "None" /\ (vals[k].x = 2 \/ vals[k].x = 0)})

pct(numer, denom) == IF denom # 0 THEN (numer * Unit) \div denom ELSE 0

\* str(x).upper().strip() on the one-letter area values
UpperStrip(s) ==
    CASE s = "a" -> "A" [] s = "b" -> "B" [] s = "c" -> "C" [] OTHER -> s

\* An optional argument: NoArg is Python's None
NoArg == [kind |-> "None"]
Arg(v) == [kind |-> "some", v |-> v]

\* ------------------------------------------------- build_row_from_review
ValidSlot(q) ==
    q.slot.kind = "int" /\ 1 <= q.slot.x /\ q.slot.x <= max_questions

\* mark, or fraction * maxmark when mark is None and both are numbers
EffMark(q) ==
    IF q.mark.kind # "None" THEN q.mark
    ELSE IF q.fraction.kind = "float" /\ q.maxmark.kind = "float"
         THEN Float((q.fraction.x * q.maxmark.x) \div 10)
         ELSE None

\* the loop over review["questions"]: the last question of a slot wins
q_vals_of(review) ==
    [s \in 1..max_questions |->
       LET idx == {i \in DOMAIN review.questions :
                     ValidSlot(review.questions[i]) /\ review.questions[i].slot.x = s}
       IN  IF idx = {} THEN None ELSE to_02(EffMark(review.questions[Max(idx)]))]

RangesOf(area_letter) ==
    IF area_letter \in DOMAIN AREA_DEFS
    THEN AREA_DEFS[area_letter].ranges
    ELSE [s \in {} |-> <<>>]

SubVals(q_vals, qs) ==
    LET keep == {k \in DOMAIN qs : 1 <= qs[k] /\ qs[k] <= max_questions}
    IN  [k \in keep |-> q_vals[qs[k]]]

\* cf.get(NAME, "") or ""
cfGet(cf, name) == IF name \in DOMAIN cf THEN cf[name] ELSE <<>>

build_row_from_review(user, quiz, area_letter, attempt, review) ==
    LET q_vals == q_vals_of(review)
        ranges == RangesOf(area_letter)
        perc == [sub \in DOMAIN ranges |->
                   pct(count_correct(SubVals(q_vals, ranges[sub])), Len(ranges[sub]))]
        pts == [sub \in DOMAIN ranges |-> (perc[sub] * Len(ranges[sub])) \div 5]
        percGet(sub) == IF sub \in DOMAIN perc THEN perc[sub] ELSE 0
        ptsGet(sub) == IF sub \in DOMAIN pts THEN pts[sub] ELSE 0
        responded == count_responded(q_vals)
    IN  [Apellidos |-> user.lastname,
         Nombre |-> user.firstname,
         Numero_de_DNI |-> cfGet(user.custom, "DNI_CE"),
         Programa_Academico |-> cfGet(user.custom, "PROGRAMA_ACADEMICO"),
         Sede_o_Filial |-> cfGet(user.custom, "SEDE_FILIAL"),
         Area |-> area_letter,
         Estado |-> attempt.state,
         Tiempo_requerido |-> Max({0, attempt.timefinish - attempt.timestart}) \div 60,
         Calificacion_20 |-> review.grade,
         quizid |-> quiz.quizid,
         courseid |-> quiz.courseid,
         attemptid |-> attempt.id,
         P |-> q_vals,
         pct |-> [sub \in Subjects |-> percGet(sub)],
         pts |-> [sub \in Subjects |-> ptsGet(sub)],
         PUNTAJE |-> ptsGet("COMUNICACION") + ptsGet("HABILIDADES COMUNICATIVAS")
                       + ptsGet("MATEMATICA") + ptsGet("CTA/CCSS"),
         PREGUNTAS_RESPONDIDAS |-> responded,
         PREGUNTAS_NO_RESPONDIDAS |-> 100 - responded]

\* ------------------------------------------------------- sort_values
\* a sort key is <<Programa Academico, DNI>>, both str
KeyLE_progOnly(k1, k2) == StrLE(k1[1], k2[1])

KeyLE(k1, k2) == StrLT(k1[1], k2[1]) \/ (k1[1] = k2[1] /\ StrLE(k1[2], k2[2]))

\* stable sort (kind="mergesort"): the permutation of the row indices
RECURSIVE SortPerm(_, _, _)
SortPerm(keys, perm, i) ==
    IF i > Len(keys) THEN perm
    ELSE LET n == Cardinality({p \in DOMAIN perm : KeyLE(keys[perm[p]], keys[i])})
         IN  SortPerm(keys,
                      SubSeq(perm, 1, n) \o <<i>> \o SubSeq(perm, n + 1, Len(perm)),
                      i + 1)

sort_values(df, keys) ==
    LET perm == SortPerm(keys, <<>>, 1)
    IN  [i \in DOMAIN df |-> df[perm[i]]]

\* ------------------------------------------------ write_excel_all_in_one
\* "if % obtained <= threshold => nivelacion"
NeedsNivel_strict(p, thr) == p < thr

NeedsNivel(p, thr) == p <= thr

\* any([com_nivel, hab_nivel, mat_nivel, cta_nivel, ccss_nivel])
requiere_nivel_noccss(com, hab, mat, cta, ccss) ==
    com # "" \/ hab # "" \/ mat # "" \/ cta # ""

requiere_nivel(com, hab, mat, cta, ccss) ==
    com # "" \/ hab # "" \/ mat # "" \/ cta # "" \/ ccss # ""

resumen_row(row, criteria_by_area, nivel_threshold_base, nivel_by_area) ==
    LET area == UpperStrip(row.Area)
        crit(sub) == IF area \in DOMAIN criteria_by_area
                        /\ sub \in DOMAIN criteria_by_area[area]
                     THEN criteria_by_area[area][sub] ELSE 0
        p(sub) == crit(sub) * row.pct[sub]
        total == p("COMUNICACION") + p("HABILIDADES COMUNICATIVAS")
                   + p("MATEMATICA") + p("CTA/CCSS")
        grade == IF row.Calificacion_20.kind = "None" THEN 0 ELSE row.Calificacion_20.x
        thr(sub) == IF area \in DOMAIN nivel_by_area /\ sub \in DOMAIN nivel_by_area[area]
                    THEN nivel_by_area[area][sub] ELSE nivel_threshold_base
        com_nivel == IF NeedsNivel(row.pct["COMUNICACION"], thr("COMUNICACION"))
                     THEN "COMUNICACION" ELSE ""
        hab_nivel == IF NeedsNivel(row.pct["HABILIDADES COMUNICATIVAS"],
                                   thr("HABILIDADES COMUNICATIVAS"))
                     THEN "HABILIDADES COMUNICATIVAS" ELSE ""
        mat_nivel == IF NeedsNivel(row.pct["MATEMATICA"], thr("MATEMATICA"))
                     THEN "MATEMATICA" ELSE ""
        low_cta == NeedsNivel(row.pct["CTA/CCSS"], thr("CTA/CCSS"))
        ccss_nivel == IF low_cta /\ area = "C" THEN "CIENCIAS SOCIALES" ELSE ""
        cta_nivel == IF low_cta /\ area # "C" THEN "CIENCIA, TECNOLOGIA Y AMBIENTE" ELSE ""
    IN  [Apellidos_y_nombres |-> <<row.Apellidos, row.Nombre>>,
         DNI |-> row.Numero_de_DNI,
         Programa_Academico |-> row.Programa_Academico,
         Sede_o_Filial |-> row.Sede_o_Filial,
         Area |-> area,
         Asistencia |-> "ASISTIO",
         score |-> [sub \in Subjects |-> p(sub)],
         CRITERIO |-> [sub \in Subjects |-> crit(sub)],
         PCT |-> [sub \in Subjects |-> row.pct[sub]],
         TOTAL |-> total,
         PCT_TOTAL |-> total \div 100,
         PREGUNTAS_RESPONDIDAS |-> row.PREGUNTAS_RESPONDIDAS,
         PREGUNTAS_NO_RESPONDIDAS |-> row.PREGUNTAS_NO_RESPONDIDAS,
         CONDICION |-> IF grade > 0 THEN "INGRESO" ELSE "",
         PROGRAMA_DE_NIVELACION |->
             IF requiere_nivel(com_nivel, hab_nivel, mat_nivel, cta_nivel, ccss_nivel)
             THEN "SI" ELSE "NO",
         COMUNICACION_1 |-> com_nivel,
         HABILIDADES_COMUNICATIVAS_1 |-> hab_nivel,
         MATEMATICA |-> mat_nivel,
         CIENCIA_TECNOLOGIA_Y_AMBIENTE_1 |-> cta_nivel,
         CIENCIAS_SOCIALES |-> ccss_nivel]

\* the two sheets written for a non-empty list of rows; the optional
\* arguments default to CRITERIA_BY_AREA and NIVEL_THRESHOLD, and a missing
\* nivel_by_area is the empty map
write_excel_all_in_one(rws, criteria_by_area, nivel_threshold_base, nivel_by_area) ==
    LET crit == IF criteria_by_area.kind = "None" THEN CRITERIA_BY_AREA
                ELSE criteria_by_area.v
        base == IF nivel_threshold_base.kind = "None" THEN NIVEL_THRESHOLD
                ELSE nivel_threshold_base.v
        nba == IF nivel_by_area.kind = "None" THEN [a \in {} |-> <<>>]
               ELSE nivel_by_area.v
        df == sort_values(rws,
                 [i \in DOMAIN rws |-> <<rws[i].Programa_Academico, rws[i].Numero_de_DNI>>])
        res == [i \in DOMAIN df |-> resumen_row(df[i], crit, base, nba)]
        df_res == sort_values(res,
                 [i \in DOMAIN res |-> <<res[i].Programa_Academico, res[i].DNI>>])
    IN  [RESULTADOS |-> df, RESUMEN |-> df_res]

\* ------------------------------------------------------- parse_quiz_map
EmptyMap == [q \in {} |-> ""]

\* left.isdigit() and right in ("A","B","C")
KeepEntry_anyArea(left, right) ==
    /\ left # <<>>
    /\ \A i \in DOMAIN left : IsDigit(left[i])
    /\ Len(right) = 1

KeepEntry(left, right) ==
    /\ left # <<>>
    /\ \A i \in DOMAIN left : IsDigit(left[i])
    /\ right \in {<<65>>, <<66>>, <<67>>}

\* the loop over the parts: left, right = p.split("=", 1); a later entry of
\* the same id overwrites; the area is kept as the str the rows carry
RECURSIVE parse_parts(_, _)
parse_parts(parts, out) ==
    IF parts = <<>> THEN out
    ELSE LET p == Head(parts)
             has_eq == \E i \in DOMAIN p : p[i] = 61
             eq == Min({i \in DOMAIN p : p[i] = 61})
             left == strip(SubSeq(p, 1, eq - 1))
             right == upper(strip(SubSeq(p, eq + 1, Len(p))))
             key == DigitsValue(left)
             LetterOf(c) ==
                 CASE c = <<65>> -> "A" [] c = <<66>> -> "B" [] c = <<67>> -> "C"
                   [] c = <<68>> -> "D" [] OTHER -> "?"
         IN  parse_parts(Tail(parts),
                IF has_eq /\ KeepEntry(left, right)
                THEN [q \in DOMAIN out \cup {key} |->
                        IF q = key THEN LetterOf(right) ELSE out[q]]
                ELSE out)

parse_quiz_map(s) ==
    IF s = <<>> THEN EmptyMap
    ELSE LET NonBlank(p) == strip(p) # <<>>
         IN  parse_parts(SelectSeq(split(s, 44), NonBlank), EmptyMap)

\* ------------------------------------------------------------- dates
\* one day is DayLen ticks: 00:00:00 is the first, 23:59:59 the last
Days == 1..2
day_range_epoch(d) == [t_from |-> d * DayLen, t_to |-> d * DayLen + (DayLen - 1)]

\* --------------------------------------------- get_user_attempts_in_range
KeepAttempt_finishOnly(a, t_from, t_to) ==
    /\ a.timefinish # 0
    /\ t_from <= a.timefinish /\ a.timefinish <= t_to

KeepAttempt(a, t_from, t_to) ==
    /\ a.timefinish # 0
    /\ \/ (t_from <= a.timefinish /\ a.timefinish <= t_to)
       \/ (t_from <= a.timestart /\ a.timestart <= t_to)

get_user_attempts_in_range(attempts, t_from, t_to) ==
    LET Test(a) == KeepAttempt(a, t_from, t_to)
    IN  SelectSeq(attempts, Test)

\* ------------------------------------------------ the Moodle site (remote)
\* str values as character codes
S_ADM == <<65, 68, 77>>
S_DER == <<68, 69, 82>>
S_9 == <<57>>
S_10 == <<49, 48>>
S_ICA == <<73, 67, 65>>
S_CHINCHA == <<67, 72, 73, 78, 67, 72, 65>>

\* shortname.upper() of the custom fields in use
Upper(sn) ==
    CASE sn = "dni_ce" -> "DNI_CE"
      [] sn = "programa_academico" -> "PROGRAMA_ACADEMICO"
      [] sn = "sede_filial" -> "SEDE_FILIAL"
      [] OTHER -> sn

CF(sn, val) == [shortname |-> sn, value |-> val]

\* core_enrol_get_enrolled_users(courseid)
MoodleEnrolled(cid) ==
    IF cid = 1 THEN
      << [id |-> 1, firstname |-> "ANA", lastname |-> "QUISPE",
          roles |-> <<"student">>,
          customfields |-> <<CF("DNI_CE", S_9), CF("programa_academico", S_ADM),
                             CF("SEDE_FILIAL", S_ICA)>>],
         [id |-> 9, firstname |-> "TEO", lastname |-> "DOCENTE",
          roles |-> <<"editingteacher">>,
          customfields |-> <<CF("DNI_CE", S_9)>>],
         [id |-> 2, firstname |-> "LUIS", lastname |-> "ROJAS",
          roles |-> <<"Student">>,
          customfields |-> <<CF("DNI_CE", S_10), CF("PROGRAMA_ACADEMICO", S_ADM),
                             CF("SEDE_FILIAL", S_CHINCHA)>>] >>
    ELSE IF cid = 2 THEN
      << [id |-> 3, firstname |-> "EVA", lastname |-> "SOTO",
          roles |-> <<"student">>,
          customfields |-> <<CF("PROGRAMA_ACADEMICO", <<65, 68>>), CF("", S_DER)>>] >>
    ELSE <<>>

\* mod_quiz_get_quizzes_by_courses(courseids = [cid])
MoodleQuizzes(cid) ==
    IF cid = 1 THEN << [id |-> 11, name |-> "INGENIERIAS"], [id |-> 12, name |-> "SALUD"] >>
    ELSE IF cid = 2 THEN << [id |-> 21, name |-> "HUMANAS"] >>
    ELSE <<>>

Attempt(id, ts, tf, st) == [id |-> id, timestart |-> ts, timefinish |-> tf, state |-> st]

\* mod_quiz_get_user_attempts(quizid, userid)
MoodleAttempts(quizid, userid) ==
    CASE quizid = 11 /\ userid = 1 ->
           << Attempt(101, DayLen, DayLen + 1, "finished"),
              Attempt(102, DayLen + 1, DayLen + 2, "finished") >>
      [] quizid = 11 /\ userid = 2 ->
           << Attempt(103, DayLen - 1, DayLen, "finished"),
              Attempt(104, DayLen + 1, 0, "inprogress") >>
      [] quizid = 12 /\ userid = 1 ->
           << Attempt(105, DayLen + 2, 2 * DayLen, "finished") >>
      [] quizid = 12 /\ userid = 2 ->
           << Attempt(106, 2 * DayLen, 2 * DayLen + 1, "finished") >>
      [] quizid = 21 /\ userid = 3 ->
           << Attempt(107, DayLen + 1, DayLen + 1, "finished") >>
      [] OTHER -> <<>>

IntV(x) == [kind |-> "int", x |-> x]

Question(slot, mark, fraction, maxmark) ==
    [slot |-> slot, mark |-> mark, fraction |-> fraction, maxmark |-> maxmark]

\* A review whose slots 1..lo and from..100 are right; the other slots are
\* wrong (answered) or unanswered; every 7th right slot carries no mark but
\* fraction and maxmark; the trailing questions have no usable slot, and
\* (dup) slot 1 is listed a second time with mark 0.
MkReview(grade, lo, from, answered, dup) ==
    LET right(i) == i <= lo \/ i >= from
        q(i) == IF right(i)
                THEN (IF i % 7 = 0
                      THEN Question(IntV(i), None, Float(10), Float(2))
                      ELSE Question(IntV(i), Float(2), None, None))
                ELSE (IF answered
                      THEN Question(IntV(i), Float(IF i % 5 = 0 THEN -1 ELSE 0), None, None)
                      ELSE Question(IntV(i), None, None, None))
        junk == << Question(None, Float(2), None, None),
                   Question(IntV(0), Float(2), None, None),
                   Question(IntV(max_questions + 1), Float(2), None, None),
                   Question([kind |-> "bad", x |-> 0], Float(2), None, None) >>
    IN  [grade |-> grade,
         questions |-> [i \in 1..max_questions |-> q(i)] \o junk
                         \o (IF dup THEN <<Question(IntV(1), Float(0), None, None)>> ELSE <<>>)]

\* mod_quiz_get_attempt_review(attemptid)
MoodleReview(attemptid) ==
    CASE attemptid = 101 -> MkReview(Float(0), 0, 101, FALSE, FALSE)
      [] attemptid = 102 -> MkReview(Float(112), 36, 82, TRUE, FALSE)
      [] attemptid = 103 -> MkReview(Float(200), 100, 101, TRUE, FALSE)
      [] attemptid = 105 -> MkReview(None, 10, 60, TRUE, TRUE)
      [] attemptid = 106 -> MkReview(Float(60), 30, 101, FALSE, FALSE)
      [] OTHER -> MkReview(Float(150), 74, 101, TRUE, FALSE)

\* ------------------------------------------------------ discover_quizzes
RECURSIVE discover_quizzes(_)
discover_quizzes(cids) ==
    IF cids = <<>> THEN <<>>
    ELSE LET cid == Head(cids)
             qzs == MoodleQuizzes(cid)
         IN  [k \in DOMAIN qzs |->
                [courseid |-> cid, quizid |-> qzs[k].id, quizname |-> qzs[k].name]]
             \o discover_quizzes(Tail(cids))

\* ------------------------------------------------------ get_course_users
Lower(role) == CASE role = "Student" -> "student" [] OTHER -> role

cf_map(cfs) ==
    LET named == {i \in DOMAIN cfs : cfs[i].shortname # ""}
    IN  [key \in {Upper(cfs[i].shortname) : i \in named} |->
           cfs[Max({i \in named : Upper(cfs[i].shortname) = key})].value]

get_course_users(cid, only_roles) ==
    LET wanted == {Lower(only_roles[i]) : i \in DOMAIN only_roles}
        Keep(u) == wanted = {} \/ \E i \in DOMAIN u.roles : Lower(u.roles[i]) \in wanted
        kept == SelectSeq(MoodleEnrolled(cid), Keep)
    IN  [i \in DOMAIN kept |->
           [id |-> kept[i].id, firstname |-> kept[i].firstname,
            lastname |-> kept[i].lastname, custom |-> cf_map(kept[i].customfields)]]


\* ====================================================== actas_presentacion
\* a float64 cell (kind f64) holds a whole number: str() writes it with ".0"
\* pd.isna(v)
isna(v) == v.kind \in {"nan", "None"}

\* str(n) for n >= 0
RECURSIVE IntToStr(_)
IntToStr(n) ==
    IF n < 10 THEN <<48 + n>> ELSE IntToStr(n \div 10) \o <<48 + (n % 10)>>

\* str(v)
str(v) ==
    CASE v.kind = "str" -> v.x
      [] v.kind = "int" -> IntToStr(v.x)
      [] v.kind = "f64" -> IntToStr(v.x) \o <<46, 48>>
      [] v.kind = "nan" -> <<110, 97, 110>>
      [] OTHER -> <<78, 111, 110, 101>>

\* s.zfill(width)
RECURSIVE zfill(_, _)
zfill(s, width) == IF Len(s) >= width THEN s ELSE zfill(<<48>> \o s, width)

_norm_dni(v) ==
    LET s0 == IF isna(v) THEN <<>> ELSE strip(str(v))
        s == IF Len(s0) >= 2 /\ SubSeq(s0, Len(s0) - 1, Len(s0)) = <<46, 48>>
             THEN SubSeq(s0, 1, Len(s0) - 2) ELSE s0
        digits == SelectSeq(s, IsDigit)
    IN  IF digits = <<>> THEN <<>> ELSE zfill(digits, 8)

_area_letter(v) ==
    LET s == IF isna(v) THEN <<>> ELSE upper(strip(str(v)))
        hits == {i \in DOMAIN s : s[i] \in {65, 66, 67}}
    IN  IF s = <<>> THEN <<>>
        ELSE IF s \in {<<65>>, <<66>>, <<67>>} THEN s
        ELSE IF hits # {} THEN <<s[Min(hits)]>>
        ELSE <<>>

_sede_key_icaFirst(s) ==
    IF Contains(<<73, 67, 65>>, upper(s)) THEN <<73, 67, 65>>
    ELSE <<67, 72, 73, 78, 67, 72, 65>>

_sede_key(s) ==
    IF Contains(<<67, 72, 73, 78, 67, 72, 65>>, upper(s)) THEN <<67, 72, 73, 78, 67, 72, 65>>
    ELSE IF Contains(<<73, 67, 65>>, upper(s)) THEN <<73, 67, 65>>
    ELSE <<67, 72, 73, 78, 67, 72, 65>>

\* ---------------------------------------------------- pd.read_excel
\* A cell as pandas reads it: an empty cell or "" is nan, a str stays a str,
\* a name (kept as an opaque text) stays a text, a number stays a number.
Text(t) == [kind |-> "text", x |-> t]
Num(x) == [kind |-> "num", x |-> x]

read_str(codes) == IF codes = <<>> THEN NaN ELSE Str(codes)
read_text(t) == IF t = "" THEN NaN ELSE Text(t)

\* the area letter of a generated row as the str of its cell
AreaCodes(a) ==
    CASE a = "A" -> <<65>> [] a = "B" -> <<66>> [] a = "C" -> <<67>>
      [] a = "D" -> <<68>> [] OTHER -> <<>>

\* the type inference of a column of str cells: when every non-empty cell
\* is a decimal numeral the column is numeric, int64 without empty cells
\* and float64 with them; otherwise the cells stay str
read_column(col) ==
    LET filled == {i \in DOMAIN col : col[i] # <<>>}
        numeric == \A i \in filled : \A k \in DOMAIN col[i] : IsDigit(col[i][k])
    IN  [i \in DOMAIN col |->
           IF col[i] = <<>> THEN NaN
           ELSE IF ~numeric THEN Str(col[i])
           ELSE IF filled = DOMAIN col THEN IntV(DigitsValue(col[i]))
           ELSE [kind |-> "f64", x |-> DigitsValue(col[i])]]

\* the columns of the two generated sheets that the builder uses or copies
RES_COLS == <<"Apellido(s)", "Nombre", "Numero de DNI", "Programa Academico",
              "Sede o Filial", "Area", "_attemptid", "PUNTAJE">>
SUM_COLS == <<"Apellidos y nombres", "DNI", "Programa Academico", "Sede o Filial",
              "Area", "Asistencia", "TOTAL", "CONDICION">>

\* pd.read_excel(gen_xlsx, sheet_name="RESULTADOS")
read_resultados(sheet) ==
    LET dni == read_column([i \in DOMAIN sheet |-> sheet[i].Numero_de_DNI])
    IN  [columns |-> RES_COLS,
         rows |-> [i \in DOMAIN sheet |->
            [c \in {RES_COLS[k] : k \in DOMAIN RES_COLS} |->
               CASE c = "Apellido(s)" -> read_text(sheet[i].Apellidos)
                 [] c = "Nombre" -> read_text(sheet[i].Nombre)
                 [] c = "Numero de DNI" -> dni[i]
                 [] c = "Programa Academico" -> read_str(sheet[i].Programa_Academico)
                 [] c = "Sede o Filial" -> read_str(sheet[i].Sede_o_Filial)
                 [] c = "Area" -> read_str(AreaCodes(sheet[i].Area))
                 [] c = "_attemptid" -> IntV(sheet[i].attemptid)
                 [] OTHER -> Num(sheet[i].PUNTAJE)]]]

\* pd.read_excel(gen_xlsx, sheet_name="RESUMEN")
read_resumen(sheet) ==
    LET dni == read_column([i \in DOMAIN sheet |-> sheet[i].DNI])
    IN  [columns |-> SUM_COLS,
         rows |-> [i \in DOMAIN sheet |->
            [c \in {SUM_COLS[k] : k \in DOMAIN SUM_COLS} |->
               CASE c = "Apellidos y nombres" -> Text(sheet[i].Apellidos_y_nombres)
                 [] c = "DNI" -> dni[i]
                 [] c = "Programa Academico" -> read_str(sheet[i].Programa_Academico)
                 [] c = "Sede o Filial" -> read_str(sheet[i].Sede_o_Filial)
                 [] c = "Area" -> read_str(AreaCodes(sheet[i].Area))
                 [] c = "Asistencia" -> Text(sheet[i].Asistencia)
                 [] c = "TOTAL" -> Num(sheet[i].TOTAL)
                 [] OTHER -> read_text(sheet[i].CONDICION)]]]

\* ------------------------------------------------------- DataFrame steps
\* df[name] = df[src].apply(f): one more column, the last; vals[i] is the
\* value of f for row i
with_column(df, name, vals) ==
    [columns |-> Append(df.columns, name),
     rows |-> [i \in DOMAIN df.rows |->
                 [c \in DOMAIN df.rows[i] \cup {name} |->
                    IF c = name THEN vals[i] ELSE df.rows[i][c]]]]

\* df.drop(columns=[name], errors="ignore")
drop_column(df, name) ==
    LET Keep(c) == c # name
    IN  [columns |-> SelectSeq(df.columns, Keep),
         rows |-> [i \in DOMAIN df.rows |->
                     [c \in DOMAIN df.rows[i] \ {name} |-> df.rows[i][c]]]]

\* df_small: _dni_norm, APELLIDOS and NOMBRES of every RESULTADOS row
df_small_of(res) ==
    [i \in DOMAIN res.rows |->
       [c \in {"_dni_norm", "APELLIDOS", "NOMBRES"} |->
          CASE c = "_dni_norm" -> res.rows[i]["_dni_norm"]
            [] c = "APELLIDOS" -> res.rows[i]["Apellido(s)"]
            [] OTHER -> res.rows[i]["Nombre"]]]

\* the rows of a left join for one left row: one per matching right row, in
\* the right table's order, and one with nan when there is none
joined_rows(left_row, right, on) ==
    LET Match(rt) == rt[on] = left_row[on]
        hits == SelectSeq(right, Match)
        Glue(rt) == [c \in DOMAIN left_row \cup {"APELLIDOS", "NOMBRES"} |->
                       IF c \in DOMAIN left_row THEN left_row[c] ELSE rt[c]]
    IN  IF hits = <<>>
        THEN <<[c \in DOMAIN left_row \cup {"APELLIDOS", "NOMBRES"} |->
                  IF c \in DOMAIN left_row THEN left_row[c] ELSE NaN]>>
        ELSE [k \in DOMAIN hits |-> Glue(hits[k])]

\* left.merge(right, on=on, how="left"): the left rows in their order
RECURSIVE merge_left(_, _, _)
merge_left(left, right, on) ==
    IF left = <<>> THEN <<>>
    ELSE joined_rows(Head(left), right, on) \o merge_left(Tail(left), right, on)

\* base: the merge, then SEDE_KEY = _sede_key(str(sede)) and
\* _AREA_LETTER = _area_letter(area)
\* (an intermediate value that is used many times is bound through a
\* one-element set, here and below, so that it is computed once)
base_of(sum, res) ==
    CHOOSE base \in
        {[i \in DOMAIN merged |->
            [c \in DOMAIN merged[i] \cup {"SEDE_KEY", "_AREA_LETTER"} |->
               CASE c = "SEDE_KEY" -> Str(_sede_key(str(merged[i]["Sede o Filial"])))
                 [] c = "_AREA_LETTER" -> Str(_area_letter(merged[i]["Area"]))
                 [] OTHER -> merged[i][c]]] :
         merged \in {merge_left(sum.rows, small, "_dni_norm") :
                        small \in {df_small_of(res)}}} : TRUE

\* ------------------------------------------------------------ worksheets
\* A template sheet is [title, cells]: cells[rw][c] is the value of row rw and
\* column c. Of the 26 columns of the layout the model keeps
\* 1 N, 2 APELLIDOS, 3 NOMBRES, 4 DNI, 8 AREA, 9 CARRERA, 10 SEDE;
\* the other columns are written in the same rows by the same loop.
Cols == {1, 2, 3, 4, 8, 9, 10}

EmptyRow == [c \in Cols |-> None]

\* for r in range(r1, r2 + 1): for c in ...: ws.cell(rw, c).value = None
_clear_range(ws, r1, r2) ==
    [ws EXCEPT !.cells = [rw \in DOMAIN ws.cells |->
                            IF r1 <= rw /\ rw <= r2 THEN EmptyRow ELSE ws.cells[rw]]]

\* the increasing list of the members of a set of row numbers
RECURSIVE sorted(_)
sorted(S) == IF S = {} THEN <<>> ELSE <<Min(S)>> \o sorted(S \ {Min(S)})

\* rows with a str cell that contains the text, upper-cased (a name written
\* by _fill_rows is an opaque text and holds no header text)
_find_rows_with_text(ws, text) ==
    sorted({rw \in DOMAIN ws.cells :
              \E c \in Cols : /\ ws.cells[rw][c].kind = "str"
                              /\ Contains(upper(text), upper(ws.cells[rw][c].x))})

\* the first letter found in column 8 of the rows header_row + 1 ..
\* min(header_row + 15, max_row + 1) - 1
_detect_block_area(ws, header_row) ==
    LET last == Min({header_row + 15, Len(ws.cells) + 1}) - 1
        hits == {rw \in (header_row + 1)..last : _area_letter(ws.cells[rw][8]) # <<>>}
    IN  IF hits = {} THEN <<>> ELSE _area_letter(ws.cells[Min(hits)][8])

\* sort_values(["Programa Academico", "DNI"], kind="mergesort"): stable,
\* in the order of the values, nan last
sort_rows(df) ==
    LET ValLT(a, b) ==
            IF a.kind = "nan" THEN FALSE
            ELSE IF b.kind = "nan" THEN TRUE
            ELSE IF a.kind = "str" THEN StrLT(a.x, b.x)
            ELSE a.x < b.x
        RowLT(r1, r2) ==
            \/ ValLT(r1["Programa Academico"], r2["Programa Academico"])
            \/ /\ ~ValLT(r2["Programa Academico"], r1["Programa Academico"])
               /\ ValLT(r1["DNI"], r2["DNI"])
        rank(i) == 1 + Cardinality({j \in DOMAIN df :
                        RowLT(df[j], df[i]) \/ (~RowLT(df[i], df[j]) /\ j < i)})
    IN  [k \in DOMAIN df |-> df[CHOOSE i \in DOMAIN df : rank(i) = k]]

\* the cells written for the i-th student (i counted from 1)
SheetRow(rr, i) ==
    [c \in Cols |->
       CASE c = 1 -> IntV(i)
         [] c = 2 -> rr["APELLIDOS"]
         [] c = 3 -> rr["NOMBRES"]
         [] c = 4 -> rr["DNI"]
         [] c = 8 -> rr["Area"]
         [] c = 9 -> rr["Programa Academico"]
         [] OTHER -> rr["Sede o Filial"]]

_fill_rows_overflow(ws, df, start_row, end_row) ==
    CHOOSE out \in
        {[cleared EXCEPT !.cells =
            [rw \in 1..Max({Len(ws.cells), start_row + Len(srt) - 1}) |->
               IF start_row <= rw /\ rw - start_row + 1 <= Len(srt)
               THEN SheetRow(srt[rw - start_row + 1], rw - start_row + 1)
               ELSE IF rw <= Len(ws.cells) THEN cleared.cells[rw] ELSE EmptyRow]] :
         cleared \in {_clear_range(ws, start_row, end_row)},
         srt \in {sort_rows(df)}} : TRUE

\* clear start_row..end_row, then write student i into row start_row + i
\* until the row would pass end_row ("break")
_fill_rows(ws, df, start_row, end_row) ==
    CHOOSE out \in
        {[cleared EXCEPT !.cells =
            [rw \in DOMAIN cleared.cells |->
               IF start_row <= rw /\ rw <= end_row /\ rw - start_row + 1 <= Len(srt)
               THEN SheetRow(srt[rw - start_row + 1], rw - start_row + 1)
               ELSE cleared.cells[rw]]] :
         cleared \in {_clear_range(ws, start_row, end_row)},
         srt \in {sort_rows(df)}} : TRUE

\* base[base["SEDE_KEY"] == sede_key]
rows_of_sede(base, sede_key) ==
    LET Is(rr) == rr["SEDE_KEY"] = Str(sede_key)
    IN  SelectSeq(base, Is)

\* one call of _fill_rows, as recorded in fills
FillCall(ws, sede_key, block, area_blk, start_row, end_row, df) ==
    [sheet |-> ws.title, sede_key |-> sede_key, block |-> block, area_blk |-> area_blk,
     start_row |-> start_row, end_row |-> end_row, students |-> Len(df)]

\* fill_acta on one sheet: one table from row 2 to the last row
fill_acta(ws, sede_key, base) ==
    CHOOSE out \in
        {[ws |-> _fill_rows(ws, df_sede, 2, Len(ws.cells)),
          calls |-> <<FillCall(ws, sede_key, 0, <<>>, 2, Len(ws.cells), df_sede)>>] :
         df_sede \in {rows_of_sede(base, sede_key)}} : TRUE

\* fill_consolidado, the loop over the detected blocks, from block k on
RECURSIVE fill_blocks(_, _, _, _, _)
fill_blocks(ws, sede_key, df_sede, header_rows, k) ==
    IF k > Len(header_rows) THEN [ws |-> ws, calls |-> <<>>]
    ELSE LET hr == header_rows[k]
             start_row == hr + 1
             end_row == IF k < Len(header_rows) THEN header_rows[k + 1] - 1
                        ELSE Len(ws.cells)
             detected == _detect_block_area(ws, hr)
             area_blk == IF detected # <<>> THEN detected
                         ELSE IF k <= 3 THEN <<64 + k>> ELSE <<>>
             InArea(rr) == rr["_AREA_LETTER"] = Str(area_blk)
             df_area == IF area_blk \in {<<65>>, <<66>>, <<67>>}
                        THEN SelectSeq(df_sede, InArea) ELSE df_sede
         IN  CHOOSE out \in
                 {[ws |-> rest.ws,
                   calls |-> <<FillCall(ws, sede_key, k, area_blk, start_row, end_row,
                                        df_area)>> \o rest.calls] :
                  rest \in {fill_blocks(filled, sede_key, df_sede, header_rows, k + 1) :
                              filled \in {_fill_rows(ws, df_area, start_row, end_row)}}} :
                 TRUE

S_APELLIDOS == <<65, 80, 69, 76, 76, 73, 68, 79, 83>>

fill_consolidado(ws, sede_key, base) ==
    CHOOSE out \in
        {IF header_rows = <<>>
         THEN [ws |-> _fill_rows(ws, df_sede, 2, Len(ws.cells)),
               calls |-> <<FillCall(ws, sede_key, 0, <<>>, 2, Len(ws.cells), df_sede)>>]
         ELSE fill_blocks(ws, sede_key, df_sede, header_rows, 1) :
         df_sede \in {rows_of_sede(base, sede_key)},
         header_rows \in {_find_rows_with_text(ws, S_APELLIDOS)}} : TRUE

\* the labels of the area selector of the application
L_A == <<193, 114, 101, 97, 32, 65, 32, 8211, 32, 73, 110, 103, 101, 110, 105, 101, 114,
         237, 97, 115>>
L_B == <<193, 114, 101, 97, 32, 66, 32, 8211, 32, 67, 105, 101, 110, 99, 105, 97, 115, 32,
         100, 101, 32, 108, 97, 32, 83, 97, 108, 117, 100>>
L_C == <<193, 114, 101, 97, 32, 67, 32, 8211, 32, 67, 105, 101, 110, 99, 105, 97, 115, 32,
         72, 117, 109, 97, 110, 97, 115>>

\* -------------------------------------------------------------- workbooks
\* sheet names and texts, as character codes
N_ACTA_CH == <<65, 99, 116, 97, 95, 70, 105, 110, 97, 108, 95, 67, 104, 105, 110, 99, 104, 97>>
N_CONS_CH == <<67, 111, 110, 115, 111, 108, 105, 100, 97, 100, 111, 95, 67, 104, 105, 110, 99, 104, 97>>
N_ACTA_ICA == <<65, 99, 116, 97, 95, 70, 105, 110, 97, 108, 95, 73, 99, 97>>
N_CONS_ICA == <<67, 111, 110, 115, 111, 108, 105, 100, 97, 100, 111, 95, 73, 99, 97>>
N_RESULTADOS == <<82, 69, 83, 85, 76, 84, 65, 68, 79, 83>>
N_RESUMEN == <<82, 69, 83, 85, 77, 69, 78>>

sheet_index(wbk, name) == CHOOSE i \in DOMAIN wbk : wbk[i].title = name

\* the first sheet name that contains the needle, lower-cased; <<>> is None
_find_sheet_by_contains(wbk, needle) ==
    LET hits == {i \in DOMAIN wbk : Contains(lower(needle), lower(wbk[i].title))}
    IN  IF hits = {} THEN <<>> ELSE wbk[Min(hits)].title

\* the mapping of sheets: the exact Chincha names first, else the first name
\* holding "acta" / "consol"; the Ica sheets by their exact names only
detect_sheets(wbk) ==
    LET has_sheet(name) == \E i \in DOMAIN wbk : wbk[i].title = name
    IN  [acta_ch |-> IF has_sheet(N_ACTA_CH) THEN N_ACTA_CH
                     ELSE _find_sheet_by_contains(wbk, <<97, 99, 116, 97>>),
         cons_ch |-> IF has_sheet(N_CONS_CH) THEN N_CONS_CH
                     ELSE _find_sheet_by_contains(wbk, <<99, 111, 110, 115, 111, 108>>),
         acta_ica |-> IF has_sheet(N_ACTA_ICA) THEN N_ACTA_ICA ELSE <<>>,
         cons_ica |-> IF has_sheet(N_CONS_ICA) THEN N_CONS_ICA ELSE <<>>]

\* _dump_df_values: the header row, then one row per row of the frame
_dump_df_values(title, df) == [title |-> title, columns |-> df.columns, data |-> df.rows]

\* del wb["RESULTADOS"], del wb["RESUMEN"], create_sheet("RESULTADOS", 0),
\* create_sheet("RESUMEN", 1), and the two dumps without _dni_norm
add_sheets(wbk, res, sum) ==
    LET Other_(ws) == ws.title \notin {N_RESULTADOS, N_RESUMEN}
    IN  <<_dump_df_values(N_RESULTADOS, drop_column(res, "_dni_norm")),
          _dump_df_values(N_RESUMEN, drop_column(sum, "_dni_norm"))>>
          \o SelectSeq(wbk, Other_)

\* ------------------------------------------------- templates (modelo_path)
S_FILIAL == <<70, 105, 108, 105, 97, 108, 32, 67, 104, 105, 110, 99, 104, 97, 32, 45, 32, 73,
              99, 97>>
S_Ica == <<73, 99, 97>>

\* The templates. An Acta sheet is a header row and ActaRows data rows; a
\* Consolidado is three blocks, each a header row and BlockRows data rows,
\* after a title row or not. The data rows of a template hold an old name
\* "x", and the first data row of a block holds the label of its area in
\* column 8 (None: the block shows no label).
\* The family: split by site with letter labels; not split; with old
\* RESULTADOS / RESUMEN sheets, blocks without labels and blocks labelled as
\* the application labels the areas; a Consolidado without header rows;
\* only the Ica sheets; no Acta sheet; no Consolidado sheet.
Modelos ==
    LET N_ACTA == <<65, 99, 116, 97>>
        N_CONS == <<67, 111, 110, 115, 111, 108, 105, 100, 97, 100, 111>>
        N_HOJA == <<72, 111, 106, 97, 49>>
        \* N°, APELLIDOS, NOMBRES, DNI, ÁREA, CARRERA, SEDE DE ESTUDIO
        HeaderRow ==
            [c \in Cols |->
               CASE c = 1 -> Str(<<78, 176>>)
                 [] c = 2 -> Str(<<65, 80, 69, 76, 76, 73, 68, 79, 83>>)
                 [] c = 3 -> Str(<<78, 79, 77, 66, 82, 69, 83>>)
                 [] c = 4 -> Str(<<68, 78, 73>>)
                 [] c = 8 -> Str(<<193, 82, 69, 65>>)
                 [] c = 9 -> Str(<<67, 65, 82, 82, 69, 82, 65>>)
                 [] OTHER -> Str(<<83, 69, 68, 69, 32, 68, 69, 32, 69, 83, 84, 85, 68, 73,
                                   79>>)]
        \* CONSOLIDADO
        TitleRow ==
            [c \in Cols |->
               IF c = 1 THEN Str(<<67, 79, 78, 83, 79, 76, 73, 68, 65, 68, 79>>) ELSE None]
        LabelRow(label) ==
            [c \in Cols |-> CASE c = 2 -> Str(<<120>>) [] c = 8 -> label [] OTHER -> None]
        ActaSheet(title) ==
            [title |-> title,
             cells |-> <<HeaderRow>> \o [i \in 1..ActaRows |-> LabelRow(None)]]
        Block(label) ==
            <<HeaderRow>>
              \o [i \in 1..BlockRows |-> IF i = 1 THEN LabelRow(label) ELSE EmptyRow]
        ConsSheet(title, labels, titled) ==
            [title |-> title,
             cells |-> (IF titled THEN <<TitleRow>> ELSE <<>>)
                         \o Block(labels[1]) \o Block(labels[2]) \o Block(labels[3])]
        TableSheet(title) ==
            [title |-> title,
             cells |-> <<TitleRow>> \o [i \in 1..ActaRows |-> LabelRow(None)]]
        PlainSheet(title) == [title |-> title, cells |-> <<LabelRow(None)>>]
        Letters(a, b, c) == <<Str(<<a>>), Str(<<b>>), Str(<<c>>)>>
    IN  << <<ActaSheet(N_ACTA_CH), ConsSheet(N_CONS_CH, Letters(65, 66, 67), FALSE),
             ActaSheet(N_ACTA_ICA), ConsSheet(N_CONS_ICA, Letters(67, 65, 66), TRUE),
             PlainSheet(N_HOJA)>>,
           <<PlainSheet(N_HOJA), ActaSheet(N_ACTA),
             ConsSheet(N_CONS, Letters(66, 67, 65), FALSE)>>,
           <<PlainSheet(N_RESUMEN), ActaSheet(N_ACTA_CH),
             ConsSheet(N_CONS_CH, <<None, None, None>>, FALSE), PlainSheet(N_RESULTADOS),
             ActaSheet(N_ACTA_ICA),
             ConsSheet(N_CONS_ICA, <<Str(L_A), Str(L_B), Str(L_C)>>, TRUE)>>,
           <<ActaSheet(N_ACTA_CH), TableSheet(N_CONS_CH)>>,
           <<ActaSheet(N_ACTA_ICA), ConsSheet(N_CONS_ICA, Letters(65, 66, 67), FALSE)>>,
           <<PlainSheet(N_HOJA), ConsSheet(N_CONS, Letters(65, 66, 67), FALSE)>>,
           <<ActaSheet(N_ACTA)>> >>

\* ===================================================== the exporter run
VARIABLES
    args,            \* the run's inputs: course_ids, quiz_map, only_roles, workers, day
    pc,              \* where main() is
    target_quizzes,  \* main: the quizzes to process
    course_users,    \* main: course id -> users
    futs,            \* the futures of the pool, in submission order
    rows,            \* main: the rows collected so far
    log,             \* the [WARN] lines printed by _process_user_quiz
    write_args,      \* the arguments of the last write_excel_all_in_one call
    xlsx,            \* the workbook written: sheets RESULTADOS and RESUMEN
    flt,             \* result of a direct call of get_user_attempts_in_range
    ret,             \* argument and result of a direct call of a pure function
    acta_args,       \* build_excel_final_con_actas: modelo, output_add_resultados_resumen
    df_res,          \* build_excel_final_con_actas: RESULTADOS as read, with _dni_norm
    df_sum,          \* build_excel_final_con_actas: RESUMEN as read, with _dni_norm
    base_tbl,        \* build_excel_final_con_actas: base, the merged table
    sheets,          \* build_excel_final_con_actas: acta_ch, cons_ch, acta_ica, cons_ica
    wb,              \* build_excel_final_con_actas: the workbook being filled
    fills            \* the calls of _fill_rows made so far

actaVars == <<acta_args, df_res, df_sum, base_tbl, sheets, wb, fills>>

vars == <<args, pc, target_quizzes, course_users, futs, rows, log, write_args, xlsx, flt,
          ret, actaVars>>

NoFile == [RESULTADOS |-> <<>>, RESUMEN |-> <<>>]
NoWriteArgs == [nivel_threshold_base |-> NoArg, nivel_by_area |-> NoArg]
NoFlt == [attempts |-> <<>>, out |-> [d \in Days |-> <<>>]]
NoRet == [fn |-> ""]

\* build_excel_final_con_actas has not been called
ActaIdle ==
    /\ acta_args = [modelo |-> <<>>, output_add_resultados_resumen |-> TRUE]
    /\ df_res = <<>>
    /\ df_sum = <<>>
    /\ base_tbl = <<>>
    /\ sheets = [acta_ch |-> <<>>, cons_ch |-> <<>>, acta_ica |-> <<>>, cons_ica |-> <<>>]
    /\ wb = <<>>
    /\ fills = <<>>

\* quiz->area maps as parse_quiz_map returns them
QM(pairs) == [q \in {pr[1] : pr \in pairs} |-> (CHOOSE pr \in pairs : pr[1] = q)[2]]

RunInputs ==
    { [course_ids |-> <<1>>, quiz_map |-> QM({<<11, "A">>, <<12, "B">>}),
       only_roles |-> <<"student">>],
      [course_ids |-> <<1, 2>>, quiz_map |-> QM({<<11, "A">>, <<21, "C">>}),
       only_roles |-> <<"student">>],
      [course_ids |-> <<2, 2>>, quiz_map |-> QM({<<21, "C">>}),
       only_roles |-> <<"student">>],
      [course_ids |-> <<1>>, quiz_map |-> QM({<<11, "B">>}),
       only_roles |-> <<>>],
      [course_ids |-> <<2, 1>>, quiz_map |-> QM({<<12, "C">>, <<99, "A">>}),
       only_roles |-> <<"student">>],
      [course_ids |-> <<2>>, quiz_map |-> QM({<<11, "A">>}),
       only_roles |-> <<"student">>],
      [course_ids |-> <<3>>, quiz_map |-> QM({<<21, "C">>}),
       only_roles |-> <<"student">>] }

Init ==
    /\ \E in \in RunInputs, w \in 1..MaxWorkers, d \in Days :
          args = [course_ids |-> in.course_ids, quiz_map |-> in.quiz_map,
                  only_roles |-> in.only_roles, workers |-> w, day |-> d]
    /\ pc = "start"
    /\ target_quizzes = <<>>
    /\ course_users = [c \in {} |-> <<>>]
    /\ futs = <<>>
    /\ rows = <<>>
    /\ log = <<>>
    /\ write_args = NoWriteArgs
    /\ xlsx = NoFile
    /\ flt = NoFlt
    /\ ret = NoRet
    /\ ActaIdle

t_from == day_range_epoch(args.day).t_from
t_to == day_range_epoch(args.day).t_to

\* main, up to the pool: discover the quizzes, keep those of --quiz-map,
\* load the users of every course; return when there is nothing to process
MainDiscover ==
    /\ pc = "start"
    /\ LET quizzes == discover_quizzes(args.course_ids)
           qids_in_cursos == {quizzes[i].quizid : i \in DOMAIN quizzes}
           target_qids == DOMAIN args.quiz_map \cap qids_in_cursos
           InTarget(q) == q.quizid \in target_qids
           tq == SelectSeq(quizzes, InTarget)
           cu == [cid \in {args.course_ids[i] : i \in DOMAIN args.course_ids} |->
                    get_course_users(cid, args.only_roles)]
           total_users == LET RECURSIVE Sum(_)
                              Sum(cids) == IF cids = <<>> THEN 0
                                           ELSE Len(cu[Head(cids)]) + Sum(Tail(cids))
                          IN  Sum(args.course_ids)
       IN  /\ target_quizzes' = tq
           /\ course_users' = cu
           /\ pc' = IF total_users = 0 \/ tq = <<>> THEN "nothing" ELSE "pool"
    /\ UNCHANGED <<args, futs, rows, log, write_args, xlsx, flt, ret, actaVars>>

\* a web-service call of main itself fails: the exception leaves main
MainWsError ==
    /\ pc = "start"
    /\ pc' = "crashed"
    /\ UNCHANGED <<args, target_quizzes, course_users, futs, rows, log, write_args, xlsx, flt, ret, actaVars>>

\* the (quiz, user) pairs in the order of the two nested loops
RECURSIVE Pairs(_, _, _)
Pairs(tq, cu, quiz_map) ==
    IF tq = <<>> THEN <<>>
    ELSE LET q == Head(tq)
             users == IF q.courseid \in DOMAIN cu THEN cu[q.courseid] ELSE <<>>
         IN  [i \in DOMAIN users |->
                [quiz |-> q, area_letter |-> quiz_map[q.quizid], user |-> users[i]]]
             \o Pairs(Tail(tq), cu, quiz_map)

AllPairs == Pairs(target_quizzes, course_users, args.quiz_map)

\* ex.submit(_process_user_quiz, ...) for the next pair
Submit ==
    /\ pc = "pool"
    /\ Len(futs) < Len(AllPairs)
    /\ LET pr == AllPairs[Len(futs) + 1]
       IN  futs' = Append(futs,
                     [quiz |-> pr.quiz, area_letter |-> pr.area_letter, user |-> pr.user,
                      state |-> "pending", runs |-> 0, k |-> 0, attempts |-> <<>>,
                      out |-> <<>>, error |-> "", exc |-> FALSE, collected |-> FALSE])
    /\ UNCHANGED <<args, pc, target_quizzes, course_users, rows, log, write_args, xlsx, flt, ret, actaVars>>

Running(fs) == {i \in DOMAIN fs : fs[i].state = "running"}

\* a pool thread takes the oldest queued task; the pool has max_workers threads
CanStart_unbounded(fs, i, max_workers) ==
    /\ fs[i].state = "pending"
    /\ \A j \in 1..(i - 1) : fs[j].state # "pending"

CanStart(fs, i, max_workers) ==
    /\ fs[i].state = "pending"
    /\ \A j \in 1..(i - 1) : fs[j].state # "pending"
    /\ Cardinality(Running(fs)) < max_workers

StartTask(i) ==
    /\ pc = "pool"
    /\ CanStart(futs, i, args.workers)
    /\ futs' = [futs EXCEPT ![i].state = "running", ![i].runs = @ + 1]
    /\ UNCHANGED <<args, pc, target_quizzes, course_users, rows, log, write_args, xlsx, flt, ret, actaVars>>

\* _process_user_quiz: "except Exception as e: print(...)" and "return out"
process_except_dropout(f, e) ==
    [f EXCEPT !.state = "done", !.error = e, !.out = <<>>]

process_except_raise(f, e) ==
    [f EXCEPT !.state = "done", !.error = e, !.exc = TRUE]

process_except(f, e) ==
    [f EXCEPT !.state = "done", !.error = e]

WsErrors == {"HTTPError", "RuntimeError"}

\* _process_user_quiz: the call of get_user_attempts_in_range succeeds
FetchAttempts(i) ==
    /\ pc = "pool"
    /\ futs[i].state = "running" /\ futs[i].k = 0
    /\ LET f == futs[i]
           atts == get_user_attempts_in_range(
                       MoodleAttempts(f.quiz.quizid, f.user.id), t_from, t_to)
       IN  futs' = [futs EXCEPT ![i] =
                      [f EXCEPT !.attempts = atts, !.k = 1,
                                !.state = IF atts = <<>> THEN "done" ELSE "running"]]
    /\ UNCHANGED <<args, pc, target_quizzes, course_users, rows, log, write_args, xlsx, flt, ret, actaVars>>

\* _process_user_quiz: get_attempt_review and build_row_from_review succeed
\* for the next attempt; the function returns after the last one
FetchReview(i) ==
    /\ pc = "pool"
    /\ futs[i].state = "running" /\ futs[i].k >= 1
    /\ LET f == futs[i]
           a == f.attempts[f.k]
           row == build_row_from_review(f.user, f.quiz, f.area_letter, a, MoodleReview(a.id))
       IN  futs' = [futs EXCEPT ![i] =
                      [f EXCEPT !.out = Append(@, row), !.k = @ + 1,
                                !.state = IF f.k = Len(f.attempts) THEN "done" ELSE "running"]]
    /\ UNCHANGED <<args, pc, target_quizzes, course_users, rows, log, write_args, xlsx, flt, ret, actaVars>>

\* _process_user_quiz: the next call raises (HTTP error, WS exception, or a
\* review that build_row_from_review cannot read); the handler logs it
TaskFails(i) ==
    /\ pc = "pool"
    /\ futs[i].state = "running"
    /\ \E e \in WsErrors \cup (IF futs[i].k >= 1 THEN {"malformed"} ELSE {}) :
          /\ futs' = [futs EXCEPT ![i] = process_except(futs[i], e)]
          /\ log' = Append(log, [user |-> futs[i].user.id,
                                  quiz |-> futs[i].quiz.quizid, e |-> e])
    /\ UNCHANGED <<args, pc, target_quizzes, course_users, rows, write_args, xlsx, flt, ret, actaVars>>

AllSubmitted == Len(futs) = Len(AllPairs)

\* main: "for fut in as_completed(futs): res = fut.result(); rows.extend(res)"
Collect(i) ==
    /\ pc = "pool"
    /\ AllSubmitted
    /\ futs[i].state = "done" /\ ~futs[i].collected
    /\ futs' = [futs EXCEPT ![i].collected = TRUE]
    /\ IF futs[i].exc
       THEN pc' = "crashed" /\ rows' = rows
       ELSE pc' = pc /\ rows' = rows \o futs[i].out
    /\ UNCHANGED <<args, target_quizzes, course_users, log, write_args, xlsx, flt, ret, actaVars>>

AllCollected == AllSubmitted /\ \A i \in DOMAIN futs : futs[i].collected

\* main: "if not rows: return"
NoRows ==
    /\ pc = "pool"
    /\ AllCollected
    /\ rows = <<>>
    /\ pc' = "no_rows"
    /\ UNCHANGED <<args, target_quizzes, course_users, futs, rows, log, write_args, xlsx, flt, ret, actaVars>>

\* thresholds typed in the UI, in percent
BasePcts == {30, 40}

\* main (CLI): write_excel_all_in_one(out_path, rows);
\* UI: write_excel_all_in_one(out_path, rows, nivel_threshold_base = pct / 100)
WriteExcel ==
    /\ pc = "pool"
    /\ AllCollected
    /\ rows # <<>>
    /\ \E base \in {NoArg} \cup {Arg(Frac(p)) : p \in BasePcts} :
          /\ write_args' = [nivel_threshold_base |-> base, nivel_by_area |-> NoArg]
          /\ xlsx' = write_excel_all_in_one(rows, NoArg, base, NoArg)
    /\ pc' = "written"
    /\ UNCHANGED <<args, target_quizzes, course_users, futs, rows, log, flt, ret, actaVars>>

Next ==
    \/ MainDiscover
    \/ MainWsError
    \/ Submit
    \/ \E i \in DOMAIN futs : StartTask(i)
    \/ \E i \in DOMAIN futs : FetchAttempts(i)
    \/ \E i \in DOMAIN futs : FetchReview(i)
    \/ \E i \in DOMAIN futs : TaskFails(i)
    \/ \E i \in DOMAIN futs : Collect(i)
    \/ NoRows
    \/ WriteExcel

Spec == Init /\ [][Next]_vars

\* ============================ direct calls of the exporter's functions
FnArgs == [course_ids |-> <<>>, quiz_map |-> QM({}), only_roles |-> <<>>,
           workers |-> 1, day |-> 1]

FnInit ==
    /\ args = FnArgs
    /\ pc = "fn"
    /\ target_quizzes = <<>>
    /\ course_users = [c \in {} |-> <<>>]
    /\ futs = <<>>
    /\ rows = <<>>
    /\ log = <<>>
    /\ write_args = NoWriteArgs
    /\ xlsx = NoFile
    /\ flt = NoFlt
    /\ ret = NoRet
    /\ ActaIdle

FnReviews ==
    {MkReview(Float(g), lo, from, answered, dup) :
        g \in {0, 140}, lo \in {0, 7, 10, 36, 74, 100}, from \in {63, 85, 101},
        answered \in BOOLEAN, dup \in BOOLEAN}

FnUsers ==
    LET us == get_course_users(1, <<"student">>) \o get_course_users(2, <<>>)
    IN  {us[i] : i \in DOMAIN us}

\* build_row_from_review on one attempt
FnBuildRow ==
    /\ pc = "fn"
    /\ \E user \in FnUsers, area_letter \in Areas, review \in FnReviews :
          rows' = <<build_row_from_review(user,
                       [courseid |-> 1, quizid |-> 11, quizname |-> "INGENIERIAS"],
                       area_letter, Attempt(101, DayLen, DayLen + 1, "finished"), review)>>
    /\ pc' = "fn_row"
    /\ UNCHANGED <<args, target_quizzes, course_users, futs, log, write_args, xlsx, flt, ret, actaVars>>

FnThresholds == {Frac(p) : p \in {0, 30, 40, 100}}

FnNivelByArea ==
    { NoArg,
      Arg([a \in {} |-> <<>>]),
      Arg([a \in {"A"} |-> [sub \in {"COMUNICACION"} |-> Frac(40)]]),
      Arg([a \in Areas |->
             [sub \in Subjects |->
                CASE sub = "COMUNICACION" -> Frac(28)
                  [] sub = "HABILIDADES COMUNICATIVAS" -> Frac(30)
                  [] sub = "MATEMATICA" -> Frac(0)
                  [] OTHER -> Frac(100)]]) }

\* write_excel_all_in_one with every optional threshold argument
FnWrite ==
    /\ pc = "fn_row"
    /\ \E base \in {NoArg} \cup {Arg(t) : t \in FnThresholds}, nba \in FnNivelByArea :
          /\ write_args' = [nivel_threshold_base |-> base, nivel_by_area |-> nba]
          /\ xlsx' = write_excel_all_in_one(rows, NoArg, base, nba)
    /\ pc' = "fn_written"
    /\ UNCHANGED <<args, target_quizzes, course_users, futs, rows, log, flt, ret, actaVars>>

Times == 0..(3 * DayLen)
FnAttempts == {Attempt(1, ts, tf, IF tf = 0 THEN "inprogress" ELSE "finished") :
                  ts \in Times, tf \in Times}

\* get_user_attempts_in_range on a list of attempts, for the window of each day
FnFilter ==
    /\ pc = "fn"
    /\ \E a \in FnAttempts, b \in FnAttempts, n \in 1..2 :
          LET attempts == IF n = 1 THEN <<a>> ELSE <<a, [b EXCEPT !.id = 2]>>
          IN  flt' = [attempts |-> attempts,
                      out |-> [d \in Days |->
                                 get_user_attempts_in_range(attempts,
                                     day_range_epoch(d).t_from, day_range_epoch(d).t_to)]]
    /\ pc' = "fn_filtered"
    /\ UNCHANGED <<args, target_quizzes, course_users, futs, rows, log, write_args, xlsx, ret, actaVars>>

\* the marks tried; the characters of the strs: 0 2 , . - blank x
To02Values ==
    LET MarkChars == {48, 50, 44, 46, 45, 32, 120}
        MarkStrs == UNION {[1..n -> MarkChars] : n \in 0..MaxStrLen}
    IN  {None, NaN, Other} \cup {Float(x) : x \in {-2, 0, 2, 10}}
           \cup {IntV(x) : x \in {-1, 0, 1}} \cup {Str(m) : m \in MarkStrs}

\* to_02 on one value
FnTo02 ==
    /\ pc = "fn"
    /\ \E v \in To02Values : ret' = [fn |-> "to_02", value |-> v, mark |-> to_02(v)]
    /\ pc' = "fn_ret"
    /\ UNCHANGED <<args, target_quizzes, course_users, futs, rows, log, write_args, xlsx, flt,
                   actaVars>>

\* entries of a --quiz-map: "1=A" "2=b" " 1 = c " "1=D" "x=A" "1A" "" " "
\* "12=B" "1=A=B" "=A" "01=C" "1 2=A" "1=AB"
QuizMapEntries ==
    << <<49, 61, 65>>, <<50, 61, 98>>, <<32, 49, 32, 61, 32, 99, 32>>, <<49, 61, 68>>,
       <<120, 61, 65>>, <<49, 65>>, <<>>, <<32>>,
       <<49, 50, 61, 66>>, <<49, 61, 65, 61, 66>>, <<61, 65>>, <<48, 49, 61, 67>>,
       <<49, 32, 50, 61, 65>>, <<49, 61, 65, 66>> >>

\* ",".join(parts)
RECURSIVE join(_)
join(parts) ==
    IF parts = <<>> THEN <<>>
    ELSE IF Len(parts) = 1 THEN parts[1]
    ELSE parts[1] \o <<44>> \o join(Tail(parts))

\* parse_quiz_map on a string of up to MaxParts entries
FnParseQuizMap ==
    /\ pc = "fn"
    /\ \E n \in 0..MaxParts : \E ix \in [1..n -> DOMAIN QuizMapEntries] :
          LET s == join([k \in 1..n |-> QuizMapEntries[ix[k]]])
          IN  ret' = [fn |-> "parse_quiz_map", s |-> s, parts |-> ix,
                      quiz_map |-> parse_quiz_map(s)]
    /\ pc' = "fn_map"
    /\ UNCHANGED <<args, target_quizzes, course_users, futs, rows, log, write_args, xlsx, flt,
                   actaVars>>

\* main: "area_letter = quiz_map.get(q["quizid"])" and the row built with it
FnMapRow ==
    /\ pc = "fn_map"
    /\ \E qid \in DOMAIN ret.quiz_map :
          rows' = <<build_row_from_review(
                       [id |-> 1, firstname |-> "ANA", lastname |-> "QUISPE",
                        custom |-> [k \in {} |-> <<>>]],
                       [courseid |-> 1, quizid |-> qid, quizname |-> "INGENIERIAS"],
                       ret.quiz_map[qid], Attempt(101, DayLen, DayLen + 1, "finished"),
                       MkReview(Float(140), 36, 85, TRUE, FALSE))>>
    /\ pc' = "fn_maprow"
    /\ UNCHANGED <<args, target_quizzes, course_users, futs, log, write_args, xlsx, flt,
                   ret, actaVars>>

\* area values: the UI's labels, letters, and values without a letter

AreaValues ==
    {None, NaN, IntV(5), Str(<<>>), Str(<<32>>), Str(<<65>>), Str(<<97>>), Str(<<66>>),
     Str(<<32, 98, 32>>), Str(<<67>>), Str(<<99>>), Str(<<120>>),
     Str(L_A), Str(L_B), Str(L_C), Str(<<78, 105, 110, 103, 117, 110, 111>>)}

\* _area_letter on one value
FnAreaLetter ==
    /\ pc = "fn"
    /\ \E v \in AreaValues : ret' = [fn |-> "_area_letter", v |-> v, letter |-> _area_letter(v)]
    /\ pc' = "fn_ret"
    /\ UNCHANGED <<args, target_quizzes, course_users, futs, rows, log, write_args, xlsx, flt,
                   actaVars>>

NextFn ==
    \/ FnBuildRow
    \/ FnWrite
    \/ FnFilter
    \/ FnTo02
    \/ FnParseQuizMap
    \/ FnMapRow
    \/ FnAreaLetter

SpecFn == FnInit /\ [][NextFn]_vars

\* ------------------------------------- build_excel_final_con_actas, in steps
\* the attempts whose rows the exporter has collected: a student with two
\* attempts, students of both sites and of no site, two students without a
\* DNI, and a site text that names both sites
ActaAttempts ==
    LET ActaUser(id, first, last, cfs) ==
            [id |-> id, firstname |-> first, lastname |-> last, custom |-> cf_map(cfs)]
        ana == get_course_users(1, <<"student">>)[1]
        luis == get_course_users(1, <<"student">>)[2]
        eva == get_course_users(2, <<>>)[1]
        sara == ActaUser(4, "SARA", "LUNA",
                    <<CF("programa_academico", S_DER), CF("sede_filial", S_Ica)>>)
        raul == ActaUser(5, "RAUL", "PAZ",
                    <<CF("dni_ce", <<48, 49, 50>>), CF("programa_academico", S_ADM),
                      CF("sede_filial", S_FILIAL)>>)
    IN  << [user |-> ana, area |-> "A", attemptid |-> 101],
           [user |-> ana, area |-> "A", attemptid |-> 102],
           [user |-> luis, area |-> "B", attemptid |-> 103],
           [user |-> eva, area |-> "C", attemptid |-> 107],
           [user |-> sara, area |-> "A", attemptid |-> 108],
           [user |-> raul, area |-> "A", attemptid |-> 109] >>

ActaInit ==
    /\ args = FnArgs
    /\ pc = "acta"
    /\ target_quizzes = <<>>
    /\ course_users = [c \in {} |-> <<>>]
    /\ futs = <<>>
    /\ \E picked \in (SUBSET DOMAIN ActaAttempts) \ {{}} :
          LET ActaRow(a) ==
                  build_row_from_review(a.user,
                      [courseid |-> 1, quizid |-> 11, quizname |-> "EXAMEN"], a.area,
                      Attempt(a.attemptid, DayLen, DayLen + 1, "finished"),
                      MoodleReview(a.attemptid))
          IN  rows = [k \in 1..Cardinality(picked) |->
                        ActaRow(ActaAttempts[sorted(picked)[k]])]
    /\ log = <<>>
    /\ write_args = NoWriteArgs
    /\ xlsx = NoFile
    /\ flt = NoFlt
    /\ ret = NoRet
    /\ \E m \in DOMAIN Modelos, flag \in BOOLEAN :
          acta_args = [modelo |-> Modelos[m], output_add_resultados_resumen |-> flag]
    /\ df_res = <<>>
    /\ df_sum = <<>>
    /\ base_tbl = <<>>
    /\ sheets = [acta_ch |-> <<>>, cons_ch |-> <<>>, acta_ica |-> <<>>, cons_ica |-> <<>>]
    /\ wb = <<>>
    /\ fills = <<>>

\* the application writes the generated workbook
ActaWrite ==
    /\ pc = "acta"
    /\ xlsx' = write_excel_all_in_one(rows, NoArg, NoArg, NoArg)
    /\ pc' = "acta_written"
    /\ UNCHANGED <<args, target_quizzes, course_users, futs, rows, log, write_args, flt, ret,
                   actaVars>>

\* steps 1 to 4 and the key columns: read both sheets, normalise the DNI,
\* merge, add SEDE_KEY and _AREA_LETTER
ActaRead ==
    /\ pc = "acta_written"
    /\ \E res0 \in {read_resultados(xlsx.RESULTADOS)}, sum0 \in {read_resumen(xlsx.RESUMEN)} :
         \E res \in {with_column(res0, "_dni_norm",
                        [i \in DOMAIN res0.rows |->
                           Str(_norm_dni(res0.rows[i]["Numero de DNI"]))])},
            sum \in {with_column(sum0, "_dni_norm",
                        [i \in DOMAIN sum0.rows |-> Str(_norm_dni(sum0.rows[i]["DNI"]))])} :
           /\ df_res' = res
           /\ df_sum' = sum
           /\ base_tbl' = base_of(sum, res)
    /\ pc' = "acta_merged"
    /\ UNCHANGED <<args, target_quizzes, course_users, futs, rows, log, write_args, xlsx, flt,
                   ret, acta_args, sheets, wb, fills>>

\* steps 5 and 6: load the template and map its sheets; RuntimeError when
\* no acta or no consolidado sheet is found
ActaOpen ==
    /\ pc = "acta_merged"
    /\ wb' = acta_args.modelo
    /\ sheets' = detect_sheets(acta_args.modelo)
    /\ pc' = IF sheets'.acta_ch = <<>> \/ sheets'.cons_ch = <<>>
             THEN "acta_error" ELSE "acta_open"
    /\ UNCHANGED <<args, target_quizzes, course_users, futs, rows, log, write_args, xlsx, flt,
                   ret, acta_args, df_res, df_sum, base_tbl, fills>>

\* step 7: fill_acta(acta_ch, "CHINCHA"), and fill_acta(acta_ica, "ICA")
\* when the template has that sheet
ActaFillActas ==
    /\ pc = "acta_open"
    /\ \E f1 \in {fill_acta(wb[sheet_index(wb, sheets.acta_ch)], S_CHINCHA, base_tbl)} :
         \E wb1 \in {[wb EXCEPT ![sheet_index(wb, sheets.acta_ch)] = f1.ws]} :
           IF sheets.acta_ica # <<>>
           THEN \E f2 \in {fill_acta(wb1[sheet_index(wb1, sheets.acta_ica)], S_ICA, base_tbl)} :
                  /\ wb' = [wb1 EXCEPT ![sheet_index(wb1, sheets.acta_ica)] = f2.ws]
                  /\ fills' = fills \o f1.calls \o f2.calls
           ELSE /\ wb' = wb1
                /\ fills' = fills \o f1.calls
    /\ pc' = "acta_actas"
    /\ UNCHANGED <<args, target_quizzes, course_users, futs, rows, log, write_args, xlsx, flt,
                   ret, acta_args, df_res, df_sum, base_tbl, sheets>>

\* step 8: fill_consolidado(cons_ch, "CHINCHA"), and
\* fill_consolidado(cons_ica, "ICA") when the template has that sheet
ActaFillConsolidados ==
    /\ pc = "acta_actas"
    /\ \E f1 \in {fill_consolidado(wb[sheet_index(wb, sheets.cons_ch)], S_CHINCHA, base_tbl)} :
         \E wb1 \in {[wb EXCEPT ![sheet_index(wb, sheets.cons_ch)] = f1.ws]} :
           IF sheets.cons_ica # <<>>
           THEN \E f2 \in {fill_consolidado(wb1[sheet_index(wb1, sheets.cons_ica)], S_ICA, base_tbl)} :
                  /\ wb' = [wb1 EXCEPT ![sheet_index(wb1, sheets.cons_ica)] = f2.ws]
                  /\ fills' = fills \o f1.calls \o f2.calls
           ELSE /\ wb' = wb1
                /\ fills' = fills \o f1.calls
    /\ pc' = "acta_cons"
    /\ UNCHANGED <<args, target_quizzes, course_users, futs, rows, log, write_args, xlsx, flt,
                   ret, acta_args, df_res, df_sum, base_tbl, sheets>>

\* steps 9 and 10: the optional RESULTADOS and RESUMEN sheets, then save
ActaSave ==
    /\ pc = "acta_cons"
    /\ wb' = IF acta_args.output_add_resultados_resumen
             THEN add_sheets(wb, df_res, df_sum) ELSE wb
    /\ pc' = "acta_saved"
    /\ UNCHANGED <<args, target_quizzes, course_users, futs, rows, log, write_args, xlsx, flt,
                   ret, acta_args, df_res, df_sum, base_tbl, sheets, fills>>

NextActa ==
    \/ ActaWrite
    \/ ActaRead
    \/ ActaOpen
    \/ ActaFillActas
    \/ ActaFillConsolidados
    \/ ActaSave

SpecActa == ActaInit /\ [][NextActa]_vars

\* ================================================================ claims
InWindow(t, d) == day_range_epoch(d).t_from <= t /\ t <= day_range_epoch(d).t_to

InSeq(x, sq) == \E k \in DOMAIN sq : sq[k] = x

Written == pc \in {"written", "fn_written"}

\* the threshold in force for an area and a subject in the last write
ThresholdInForce(area, sub) ==
    LET nba == write_args.nivel_by_area
        base == write_args.nivel_threshold_base
    IN  IF nba.kind = "some" /\ area \in DOMAIN nba.v /\ sub \in DOMAIN nba.v[area]
        THEN nba.v[area][sub]
        ELSE IF base.kind = "some" THEN base.v ELSE Frac(30)

\* the nivelacion column(s) of a subject in a RESUMEN row
NivelFlagged(rr, sub) ==
    CASE sub = "COMUNICACION" -> rr.COMUNICACION_1 # ""
      [] sub = "HABILIDADES COMUNICATIVAS" -> rr.HABILIDADES_COMUNICATIVAS_1 # ""
      [] sub = "MATEMATICA" -> rr.MATEMATICA # ""
      [] OTHER -> rr.CIENCIA_TECNOLOGIA_Y_AMBIENTE_1 # "" \/ rr.CIENCIAS_SOCIALES # ""

\* C1: in every RESUMEN row and for each of the four subjects, the subject's
\* nivelacion column is non-empty exactly when the row's fraction is less
\* than or equal to the threshold in force (nivel_by_area[area][subject] when
\* given, else nivel_threshold_base, else 0.30); equality is flagged.
C1_NivelIffAtOrBelowThreshold ==
    Written =>
      \A i \in DOMAIN xlsx.RESUMEN : \A sub \in Subjects :
         NivelFlagged(xlsx.RESUMEN[i], sub)
           <=> xlsx.RESUMEN[i].PCT[sub] <= ThresholdInForce(xlsx.RESUMEN[i].Area, sub)

C1_Witness ==
    /\ Written
    /\ write_args.nivel_by_area.kind = "some"
    /\ \E i \in DOMAIN xlsx.RESUMEN :
          LET rr == xlsx.RESUMEN[i]
          IN  /\ rr.Area \in DOMAIN write_args.nivel_by_area.v
              /\ rr.PCT["COMUNICACION"] = Frac(40)
              /\ ThresholdInForce(rr.Area, "COMUNICACION") = Frac(40)
              /\ rr.COMUNICACION_1 # ""
              /\ rr.PCT["HABILIDADES COMUNICATIVAS"] > ThresholdInForce(rr.Area, "HABILIDADES COMUNICATIVAS")
              /\ rr.HABILIDADES_COMUNICATIVAS_1 = ""

FiveFlags(rr) ==
    {rr.COMUNICACION_1, rr.HABILIDADES_COMUNICATIVAS_1, rr.MATEMATICA,
     rr.CIENCIA_TECNOLOGIA_Y_AMBIENTE_1, rr.CIENCIAS_SOCIALES}

\* C2: in every RESUMEN row PROGRAMA DE NIVELACION is "SI" exactly when one
\* of the five course columns is non-empty and "NO" otherwise; a low CTA/CCSS
\* fraction sets CIENCIAS SOCIALES only for area C and CIENCIA, TECNOLOGIA Y
\* AMBIENTE only for the other areas, never both.
C2_ProgramaNivelacion ==
    Written =>
      \A i \in DOMAIN xlsx.RESUMEN :
         LET rr == xlsx.RESUMEN[i]
             low == rr.PCT["CTA/CCSS"] <= ThresholdInForce(rr.Area, "CTA/CCSS")
         IN  /\ rr.PROGRAMA_DE_NIVELACION = (IF FiveFlags(rr) # {""} THEN "SI" ELSE "NO")
             /\ (rr.CIENCIAS_SOCIALES # "") <=> (low /\ rr.Area = "C")
             /\ (rr.CIENCIA_TECNOLOGIA_Y_AMBIENTE_1 # "") <=> (low /\ rr.Area # "C")
             /\ ~(rr.CIENCIAS_SOCIALES # "" /\ rr.CIENCIA_TECNOLOGIA_Y_AMBIENTE_1 # "")

C2_Witness ==
    /\ Written
    /\ \E i \in DOMAIN xlsx.RESUMEN :
          LET rr == xlsx.RESUMEN[i]
          IN  /\ rr.Area = "C"
              /\ FiveFlags(rr) = {"", "CIENCIAS SOCIALES"}
              /\ rr.PROGRAMA_DE_NIVELACION = "SI"

RangeSet(qs) == {qs[k] : k \in DOMAIN qs}

DocumentedSize(a, sub) ==
    CASE sub = "HABILIDADES COMUNICATIVAS" -> 10
      [] sub = "COMUNICACION" -> (IF a = "C" THEN 35 ELSE 25)
      [] sub = "MATEMATICA" -> (IF a = "A" THEN 50 ELSE 30)
      [] OTHER -> (CASE a = "A" -> 15 [] a = "B" -> 35 [] OTHER -> 25)

\* C3: for each area A, B, C the four sub-area ranges of AREA_DEFS are
\* pairwise disjoint, cover exactly the slots 1..100 and have the documented
\* sizes, so every slot counts toward exactly one subject: in every row
\* built, the right answers of the four subjects add up to the right answers
\* among the 100 slots.
C3_RangesPartitionSlots ==
  /\ \A k \in DOMAIN rows :
        LET rg == RangesOf(rows[k].Area)
            right(sub) == Cardinality({s \in RangeSet(rg[sub]) : rows[k].P[s] = Float(2)})
        IN  /\ \A sub \in Subjects : rows[k].pct[sub] * Len(rg[sub]) = Unit * right(sub)
            /\ right("COMUNICACION") + right("MATEMATICA")
                  + right("HABILIDADES COMUNICATIVAS") + right("CTA/CCSS")
                 = count_correct(rows[k].P)
  /\ \A a \in Areas :
       LET rg == RangesOf(a)
       IN  /\ DOMAIN rg = Subjects
           /\ \A s1 \in Subjects, s2 \in Subjects :
                 s1 # s2 => RangeSet(rg[s1]) \cap RangeSet(rg[s2]) = {}
           /\ UNION {RangeSet(rg[sub]) : sub \in Subjects} = 1..100
           /\ \A sub \in Subjects :
                 /\ Len(rg[sub]) = DocumentedSize(a, sub)
                 /\ Cardinality(RangeSet(rg[sub])) = Len(rg[sub])
           /\ \A slot \in 1..100 :
                 Cardinality({sub \in Subjects : slot \in RangeSet(rg[sub])}) = 1

\* a row of area C whose 100 slots are all right: each slot counted once
C3_Witness ==
    /\ pc = "fn_row"
    /\ rows[1].Area = "C"
    /\ count_correct(rows[1].P) = 100
    /\ \A sub \in Subjects : rows[1].pct[sub] = Unit

SubjectSum(f) ==
    f["COMUNICACION"] + f["HABILIDADES COMUNICATIVAS"] + f["MATEMATICA"] + f["CTA/CCSS"]

C7_DayFilter ==
    \A d \in Days :
       /\ \A k \in DOMAIN flt.attempts :
             LET a == flt.attempts[k]
             IN  /\ InSeq(a, flt.out[d])
                       <=> (a.timefinish # 0
                            /\ (InWindow(a.timefinish, d) \/ InWindow(a.timestart, d)))
                 /\ (d + 1 \in Days /\ InWindow(a.timestart, d)
                        /\ InWindow(a.timefinish, d + 1))
                      => (InSeq(a, flt.out[d]) /\ InSeq(a, flt.out[d + 1]))
       /\ \A k \in DOMAIN flt.out[d] :
             InSeq(flt.out[d][k], flt.attempts) /\ flt.out[d][k].timefinish # 0
       /\ Len(flt.out[d]) <= Len(flt.attempts)
       /\ (Len(flt.out[d]) = 2 => flt.out[d] = flt.attempts)

C7_Witness ==
    /\ pc = "fn_filtered"
    /\ Len(flt.attempts) = 2
    /\ InWindow(flt.attempts[1].timestart, 1) /\ InWindow(flt.attempts[1].timefinish, 2)
    /\ flt.attempts[2].timefinish = 0 /\ InWindow(flt.attempts[2].timestart, 1)
    /\ flt.out[1] = <<flt.attempts[1]>>
    /\ flt.out[2] = <<flt.attempts[1]>>

Finished == pc \in {"written", "no_rows"}

\* C5: RESUMEN is a per-student summary: each student (DNI) of RESULTADOS
\* appears in exactly one RESUMEN row, also with several finished attempts
\* inside the day window.
C5_OneResumenRowPerStudent ==
    pc = "written" =>
      \A i \in DOMAIN xlsx.RESULTADOS :
         Cardinality({j \in DOMAIN xlsx.RESUMEN :
                        xlsx.RESUMEN[j].DNI = xlsx.RESULTADOS[i].Numero_de_DNI}) = 1

\* the (quiz id, user id, attempt id) of every attempt that passes the day
\* filter, over the target quizzes and the users of each quiz's course
QualifyingAttempts ==
    {t \in UNION {
        UNION { {<<target_quizzes[q].quizid, u.id, a.id>> :
                    a \in {MoodleAttempts(target_quizzes[q].quizid, u.id)[n] :
                              n \in DOMAIN MoodleAttempts(target_quizzes[q].quizid, u.id)}} :
                u \in {course_users[target_quizzes[q].courseid][m] :
                          m \in DOMAIN course_users[target_quizzes[q].courseid]} } :
        q \in DOMAIN target_quizzes} :
       \E n \in DOMAIN MoodleAttempts(t[1], t[2]) :
          LET a == MoodleAttempts(t[1], t[2])[n]
          IN  /\ a.id = t[3]
              /\ a.timefinish # 0
              /\ (InWindow(a.timefinish, args.day) \/ InWindow(a.timestart, args.day))}

\* C6: when no web-service call fails, RESULTADOS has exactly one row for
\* every attempt that passes the day filter, for every pair (target quiz,
\* enrolled user of the quiz's course): none missing, none duplicated,
\* whatever the number of workers.
C6_OneRowPerQualifyingAttempt ==
    (Finished /\ log = <<>>) =>
      /\ \A t \in QualifyingAttempts :
            Cardinality({i \in DOMAIN xlsx.RESULTADOS :
                           xlsx.RESULTADOS[i].attemptid = t[3]}) = 1
      /\ \A i \in DOMAIN xlsx.RESULTADOS :
            \E t \in QualifyingAttempts :
               /\ xlsx.RESULTADOS[i].attemptid = t[3]
               /\ xlsx.RESULTADOS[i].quizid = t[1]

\* the sort key of a row, as the pair of str the program compares
ResKey(d) == <<d.Programa_Academico, d.Numero_de_DNI>>
SumKey(rr) == <<rr.Programa_Academico, rr.DNI>>
Ordered(k1, k2) == StrLT(k1[1], k2[1]) \/ (k1[1] = k2[1] /\ (k1[2] = k2[2] \/ StrLT(k1[2], k2[2])))

SameKeyRows(sq, key) ==
    LET Has(d) == ResKey(d) = key
    IN  SelectSeq(sq, Has)

\* C8: the rows of RESULTADOS and RESUMEN are ordered by Programa Academico
\* ascending and, within one programme, by DNI ascending (both compared as
\* text); the sort is stable: rows with equal (programme, DNI) keep the order
\* in which they were collected, and RESUMEN row i summarises RESULTADOS row i.
C8_SortedByProgramaThenDni ==
    pc = "written" =>
      /\ Len(xlsx.RESULTADOS) = Len(rows) /\ Len(xlsx.RESUMEN) = Len(rows)
      /\ \A i \in DOMAIN xlsx.RESULTADOS : \A j \in DOMAIN xlsx.RESULTADOS :
            i < j => /\ Ordered(ResKey(xlsx.RESULTADOS[i]), ResKey(xlsx.RESULTADOS[j]))
                     /\ Ordered(SumKey(xlsx.RESUMEN[i]), SumKey(xlsx.RESUMEN[j]))
      /\ \A k \in DOMAIN rows :
            SameKeyRows(xlsx.RESULTADOS, ResKey(rows[k])) = SameKeyRows(rows, ResKey(rows[k]))
      /\ \A i \in DOMAIN xlsx.RESUMEN :
            /\ SumKey(xlsx.RESUMEN[i]) = ResKey(xlsx.RESULTADOS[i])
            /\ xlsx.RESUMEN[i].PCT = xlsx.RESULTADOS[i].pct
            /\ xlsx.RESUMEN[i].PREGUNTAS_RESPONDIDAS = xlsx.RESULTADOS[i].PREGUNTAS_RESPONDIDAS

\* collected out of order, with two equal-key rows of different tasks
\* collected latest-quiz first, and a DNI pair whose text order ("10" < "9")
\* differs from the collection order
C8_Witness ==
    /\ pc = "written"
    /\ \E i \in DOMAIN rows, j \in DOMAIN rows :
          i < j /\ ~Ordered(ResKey(rows[i]), ResKey(rows[j]))
    /\ \E i \in DOMAIN rows, j \in DOMAIN rows :
          i < j /\ ResKey(rows[i]) = ResKey(rows[j]) /\ rows[i].quizid > rows[j].quizid
    /\ \E i \in DOMAIN xlsx.RESULTADOS, j \in DOMAIN xlsx.RESULTADOS :
          /\ i < j
          /\ ResKey(xlsx.RESULTADOS[i]) = ResKey(xlsx.RESULTADOS[j])
          /\ xlsx.RESULTADOS[i].quizid > xlsx.RESULTADOS[j].quizid
    /\ \E i \in DOMAIN xlsx.RESULTADOS :
          xlsx.RESULTADOS[i].Numero_de_DNI = S_10
          /\ xlsx.RESULTADOS[i + 1].Numero_de_DNI = S_9

RECURSIVE Flatten(_, _)
Flatten(fs, n) == IF n = 0 THEN <<>> ELSE Flatten(fs, n - 1) \o fs[n].out

RowCount(sq, row) == Cardinality({k \in DOMAIN sq : sq[k] = row})

\* C9: a failure while one (quiz, user) pair is processed never leaves
\* _process_user_quiz and never stops the run: it is logged, the failing
\* pair returns the rows built for its earlier attempts, and the rows of
\* every other pair are still collected and written.
C9_FailureIsContained ==
    /\ \A i \in DOMAIN futs : ~futs[i].exc
    /\ pc = "crashed" => futs = <<>>
    /\ Len(log) = Cardinality({i \in DOMAIN futs : futs[i].error # ""})
    /\ \A n \in DOMAIN log :
          \E i \in DOMAIN futs :
             /\ futs[i].error = log[n].e
             /\ futs[i].user.id = log[n].user /\ futs[i].quiz.quizid = log[n].quiz
    /\ \A i \in DOMAIN futs :
          /\ futs[i].error # "" =>
                /\ futs[i].state = "done"
                /\ Len(futs[i].out) = (IF futs[i].k = 0 THEN 0 ELSE futs[i].k - 1)
          /\ (futs[i].state = "done" /\ futs[i].error = "") =>
                Len(futs[i].out) = Len(futs[i].attempts)
          /\ \A n \in DOMAIN futs[i].out :
                /\ futs[i].out[n].attemptid = futs[i].attempts[n].id
                /\ futs[i].out[n].quizid = futs[i].quiz.quizid
    /\ pc = "pool" =>
          \/ ~AllSubmitted
          \/ AllCollected
          \/ \E i \in DOMAIN futs :
                \/ futs[i].state = "running"
                \/ futs[i].state = "done" /\ ~futs[i].collected
                \/ CanStart(futs, i, args.workers)
    /\ Finished =>
          /\ \A i \in DOMAIN futs : futs[i].state = "done" /\ futs[i].collected
          /\ Len(rows) = Len(Flatten(futs, Len(futs)))
          /\ \A n \in DOMAIN rows :
                RowCount(rows, rows[n]) = RowCount(Flatten(futs, Len(futs)), rows[n])
          /\ Len(xlsx.RESULTADOS) = Len(rows)

\* a pair failed on its second review, its first row and the rows of the
\* other pairs are in the workbook
C9_Witness ==
    /\ pc = "written"
    /\ \E i \in DOMAIN futs :
          /\ futs[i].error = "malformed" /\ futs[i].k = 2 /\ Len(futs[i].out) = 1
          /\ \E n \in DOMAIN xlsx.RESULTADOS : xlsx.RESULTADOS[n] = futs[i].out[1]
          /\ \E j \in DOMAIN futs :
                /\ j # i /\ futs[j].error = "" /\ futs[j].out # <<>>
                /\ \E n \in DOMAIN xlsx.RESULTADOS : xlsx.RESULTADOS[n] = futs[j].out[1]

PairOf(f) == <<f.quiz.quizid, f.user.id>>

\* the pairs (target quiz, user of the quiz's course)
TargetPairs ==
    UNION { {<<target_quizzes[q].quizid, course_users[target_quizzes[q].courseid][m].id>> :
                m \in DOMAIN course_users[target_quizzes[q].courseid]} :
            q \in DOMAIN target_quizzes }

\* the pool itself: never more than `workers` tasks run at once, and every
\* submitted task is started at most once and exactly once when it is done
PoolBounded ==
    /\ Cardinality(Running(futs)) <= args.workers
    /\ \A i \in DOMAIN futs :
          /\ futs[i].runs <= 1
          /\ futs[i].state # "pending" <=> futs[i].runs = 1

\* C10: attempt fetching runs in a bounded pool: never more than `workers`
\* (quiz, user) tasks execute at once, every pair is submitted exactly once
\* and each task is executed exactly once.
C10_BoundedPoolEachPairOnce ==
    /\ PoolBounded
    /\ \A i \in DOMAIN futs : \A j \in DOMAIN futs :
          i # j => PairOf(futs[i]) # PairOf(futs[j])
    /\ (pc = "pool" /\ AllSubmitted) =>
          \A pr \in TargetPairs :
             Cardinality({i \in DOMAIN futs : PairOf(futs[i]) = pr}) = 1
    /\ Finished => \A i \in DOMAIN futs : futs[i].runs = 1

\* the course ids of the run are pairwise distinct
DistinctCourseIds ==
    \A i \in DOMAIN args.course_ids : \A j \in DOMAIN args.course_ids :
       i # j => args.course_ids[i] # args.course_ids[j]

\* what the code does guarantee for C6 and C10: with pairwise distinct
\* course ids every qualifying attempt has exactly one row and every pair
\* exactly one future
OneRowPerAttemptIfDistinctCourses ==
    DistinctCourseIds => (C6_OneRowPerQualifyingAttempt /\ C10_BoundedPoolEachPairOnce)

\* the letter the claim gives for an area value: "A", "a" and the label of
\* area X give X, a value with no letter A/B/C gives the empty string
ExpectedLetter(v) ==
    CASE v \in {Str(<<65>>), Str(<<97>>), Str(L_A)} -> <<65>>
      [] v \in {Str(<<66>>), Str(<<32, 98, 32>>), Str(L_B)} -> <<66>>
      [] v \in {Str(<<67>>), Str(<<99>>), Str(L_C)} -> <<67>>
      [] OTHER -> <<>>

\* C12: _area_letter gives the area letter of a value: "A", "a" and a label
\* "Area X - <name>" with X in {A, B, C} all give X; an empty value or one
\* with no letter A/B/C gives the empty string.
C12_AreaLetterOfLabel ==
    ret.fn = "_area_letter" => ret.letter = ExpectedLetter(ret.v)

\* what the code does give: the first of the characters A, B, C of the
\* upper-cased value, which for every label "Area X - ..." is the final A
\* of the word AREA
AreaLetterIsFirstAbc ==
    ret.fn = "_area_letter" =>
      /\ ret.v \in {Str(L_A), Str(L_B), Str(L_C)} => ret.letter = <<65>>
      /\ ret.v \notin {Str(L_B), Str(L_C)} => ret.letter = ExpectedLetter(ret.v)

\* a str read as a number: blanks at the ends, an optional sign, digits with
\* at most one decimal comma or point, at least one digit
Parsable(s) ==
    \E lo \in DOMAIN s : \E hi \in lo..Len(s) :
       /\ \A i \in DOMAIN s : (i < lo \/ i > hi) => s[i] = 32
       /\ s[hi] # 32
       /\ LET m == IF s[lo] \in {43, 45} THEN lo + 1 ELSE lo
          IN  /\ s[lo] # 32
              /\ \A i \in m..hi : IsDigit(s[i]) \/ s[i] \in {44, 46}
              /\ Cardinality({i \in m..hi : s[i] \in {44, 46}}) <= 1
              /\ \E i \in m..hi : IsDigit(s[i])

Positive(s) ==
    /\ Parsable(s)
    /\ \A i \in DOMAIN s : s[i] # 45
    /\ \E i \in DOMAIN s : IsDigit(s[i]) /\ s[i] # 48

\* C16: to_02 gives one of three outcomes: 0.2 when the numeric value is
\* greater than 0, 0.0 when it is zero or negative, None when the value is
\* None or cannot be parsed as a number; the str "0,2" is read as 0.2.
C16_To02ThreeOutcomes ==
    ret.fn = "to_02" =>
      LET v == ret.value
      IN  /\ ret.mark \in {None, Float(0), Float(2)}
          /\ v = None => ret.mark = None
          /\ v = Other => ret.mark = None
          /\ v.kind \in {"float", "int"} =>
                ret.mark = (IF v.x > 0 THEN Float(2) ELSE Float(0))
          /\ v.kind = "str" =>
                ret.mark = (IF ~Parsable(v.x) THEN None
                            ELSE IF Positive(v.x) THEN Float(2) ELSE Float(0))
          /\ v = Str(<<48, 44, 50>>) => ret.mark = Float(2)

\* "0,2" has been normalised to 0.2
C16_Witness ==
    /\ pc = "fn_ret"
    /\ ret.fn = "to_02"
    /\ ret.value = Str(<<48, 44, 50>>)
    /\ ret.mark = Float(2)

\* what the claim makes of one entry of QuizMapEntries: <<id, area>> when
\* its left side is all digits and its right side, trimmed and upper-cased,
\* is A, B or C; <<>> when it is skipped
ExpectedEntry(k) ==
    CASE k = 1 -> <<1, "A">>
      [] k = 2 -> <<2, "B">>
      [] k = 3 -> <<1, "C">>
      [] k = 9 -> <<12, "B">>
      [] k = 12 -> <<1, "C">>
      [] OTHER -> <<>>

\* C17: parse_quiz_map gives a map with integer keys and values in
\* {A, B, C}: an entry is kept exactly when its left side is all digits and
\* its right side, upper-cased and trimmed, is A, B or C; the other entries
\* are skipped, a repeated id keeps the last area, the empty string gives
\* the empty map; so a row built with the map's area has Area in {A, B, C}.
C17_QuizMapKeysAndAreas ==
    /\ ret.fn = "parse_quiz_map" =>
         LET ix == ret.parts
             kept == {k \in DOMAIN ix : ExpectedEntry(ix[k]) # <<>>}
             ids == {ExpectedEntry(ix[k])[1] : k \in kept}
         IN  /\ DOMAIN ret.quiz_map = ids
             /\ DOMAIN ret.quiz_map \subseteq Nat
             /\ \A q \in ids :
                   /\ ret.quiz_map[q] \in Areas
                   /\ ret.quiz_map[q]
                        = ExpectedEntry(ix[Max({k \in kept : ExpectedEntry(ix[k])[1] = q})])[2]
             /\ ret.s = <<>> => ret.quiz_map = EmptyMap
    /\ pc = "fn_maprow" => rows[1].Area \in Areas

\* "1=A, 1 = c ": the later entry of quiz 1 wins, and the row has area C
C17_Witness ==
    /\ pc = "fn_maprow"
    /\ ret.parts = <<1, 3>>
    /\ ret.quiz_map = [q \in {1} |-> "C"]
    /\ rows[1].Area = "C"

\* ------------------------------------------- build_excel_final_con_actas
\* the builder has merged RESUMEN with RESULTADOS
Merged == pc \in {"acta_merged", "acta_open", "acta_error", "acta_actas", "acta_cons",
                  "acta_saved"}

\* row i of a table agrees with a RESUMEN row on every RESUMEN column
SameSummary(brow, srow) == \A c \in DOMAIN srow : brow[c] = srow[c]

\* C19: the table used to fill the Actas and Consolidados has exactly one
\* row per RESUMEN row, in the same order: the left join on the normalised
\* DNI neither drops nor multiplies summary rows, also when a DNI occurs in
\* several RESULTADOS rows or several rows have an empty DNI.
C19_OneBaseRowPerResumenRow ==
    Merged =>
        /\ Len(base_tbl) = Len(df_sum.rows)
        /\ \A i \in DOMAIN base_tbl : SameSummary(base_tbl[i], df_sum.rows[i])

\* the normalised DNIs of RESULTADOS are all different and none is empty
DistinctDnis ==
    \A i, j \in DOMAIN df_res.rows :
        /\ df_res.rows[i]["_dni_norm"] # Str(<<>>)
        /\ (i # j => df_res.rows[i]["_dni_norm"] # df_res.rows[j]["_dni_norm"])

\* what the merge does give: no summary row is dropped, each is repeated
\* once per RESULTADOS row of the same normalised DNI, and with distinct,
\* non-empty DNIs the table is the summary, row for row
MergeRepeatsPerMatch ==
    Merged =>
        LET matches(i) == Cardinality({j \in DOMAIN df_res.rows :
                              df_res.rows[j]["_dni_norm"] = df_sum.rows[i]["_dni_norm"]})
            copies(i) == Cardinality({k \in DOMAIN base_tbl :
                              SameSummary(base_tbl[k], df_sum.rows[i])})
            same(i) == Cardinality({j \in DOMAIN df_sum.rows : df_sum.rows[j] = df_sum.rows[i]})
        IN  /\ \A i \in DOMAIN df_sum.rows :
                  copies(i) = same(i) * Max({1, matches(i)})
            /\ DistinctDnis => C19_OneBaseRowPerResumenRow

\* the builder has filled sheets of the template
Filled == pc \in {"acta_actas", "acta_cons", "acta_saved"}

\* the filled sheets of the workbook, each with the same sheet of the
\* template: <<template sheet, sheet now>>
FilledSheets ==
    {pr \in {<<acta_args.modelo[i], wb[j]>> : i \in DOMAIN acta_args.modelo, j \in DOMAIN wb} :
        /\ pr[1].title = pr[2].title
        /\ \E k \in DOMAIN fills : fills[k].sheet = pr[1].title}

\* the calls of _fill_rows on a sheet that no later call on the same rows
\* has overwritten
LastFills(title) ==
    {k \in DOMAIN fills :
        /\ fills[k].sheet = title
        /\ ~\E n \in DOMAIN fills : /\ n > k
                                    /\ fills[n].sheet = title
                                    /\ fills[n].start_row = fills[k].start_row}

IsHeaderRow(row) ==
    \E c \in Cols : row[c].kind = "str" /\ Contains(S_APELLIDOS, upper(row[c].x))

\* the number of students a call has room for
Room(f) == Min({f.students, f.end_row - f.start_row + 1})

\* C13: filling respects the template layout. A filled sheet keeps its
\* number of rows (nothing is written past the last row); every row outside
\* the ranges start_row..end_row of the calls is as in the template, and so
\* are row 1 and every row containing 'APELLIDOS'; inside a range the first
\* k rows carry the numbers 1..k in column 1 and the other rows are empty,
\* where k is the number of students or, when they are more than the rows
\* of the range, the number of rows: the excess students are dropped.
C13_FillRespectsLayout ==
    Filled =>
        \A pr \in FilledSheets :
            LET t == pr[1]
                w == pr[2]
                inRange(rw) == \E k \in DOMAIN fills :
                                  /\ fills[k].sheet = t.title
                                  /\ fills[k].start_row <= rw /\ rw <= fills[k].end_row
            IN  /\ Len(w.cells) = Len(t.cells)
                /\ \A rw \in DOMAIN t.cells :
                      (~inRange(rw) \/ rw = 1 \/ IsHeaderRow(t.cells[rw]))
                          => w.cells[rw] = t.cells[rw]
                /\ \A k \in LastFills(t.title) :
                      \A rw \in fills[k].start_row..fills[k].end_row :
                          IF rw - fills[k].start_row + 1 <= Room(fills[k])
                          THEN w.cells[rw][1] = IntV(rw - fills[k].start_row + 1)
                          ELSE w.cells[rw] = EmptyRow

\* a Consolidado with blocks is filled: one block gets more students than
\* it has rows, one gets fewer, and an old name of the template is gone
C13_Witness ==
    /\ pc = "acta_cons"
    /\ \E k, n \in DOMAIN fills :
          /\ fills[k].block > 0
          /\ fills[k].students > fills[k].end_row - fills[k].start_row + 1
          /\ fills[n].block > 0
          /\ fills[n].sheet = fills[k].sheet
          /\ fills[n].students > 0
          /\ fills[n].students < fills[n].end_row - fills[n].start_row + 1
          /\ \E pr \in FilledSheets :
                /\ pr[1].title = fills[n].sheet
                /\ pr[1].cells[fills[n].start_row][2] = Str(<<120>>)
                /\ pr[2].cells[fills[n].end_row] = EmptyRow

\* the site of a site text as the claim words it: CHINCHA when the text
\* holds 'CHINCHA', else ICA when it holds 'ICA', else CHINCHA; a cell
\* without text holds neither
SiteOf(cell) ==
    LET text == IF cell.kind = "str" THEN upper(cell.x) ELSE <<>>
    IN  IF Contains(S_CHINCHA, text) THEN S_CHINCHA
        ELSE IF Contains(S_ICA, text) THEN S_ICA
        ELSE S_CHINCHA

\* the rows written by the calls of _fill_rows that still show, each with
\* the site its call was made for: <<site key, cells of the row>>
WrittenIn(title) ==
    UNION {{<<fills[k].sede_key, pr[2].cells[rw]>> :
               rw \in fills[k].start_row..(fills[k].start_row + Room(fills[k]) - 1)} :
           pr \in {q \in FilledSheets : q[1].title = title}, k \in LastFills(title)}

WrittenRows == UNION {WrittenIn(wb[j].title) : j \in DOMAIN wb}

NotSplit == sheets.acta_ica = <<>> /\ sheets.cons_ica = <<>>

\* a shown row is the row of a summary row
ShowsSummary(cells, srow) ==
    /\ cells[4] = srow["DNI"]
    /\ cells[8] = srow["Area"]
    /\ cells[9] = srow["Programa Academico"]
    /\ cells[10] = srow["Sede o Filial"]

\* the data rows of the Acta sheet
ActaCapacity ==
    LET acta == acta_args.modelo[sheet_index(acta_args.modelo, sheets.acta_ch)]
    IN  Len(acta.cells) - 1

\* C15: when the template has no sheets 'Acta_Final_Ica' and
\* 'Consolidado_Ica', every RESUMEN row, also one whose site is ICA, is
\* written to the Acta sheet when the sheet has room for all rows.
C15_UnsplitActaShowsAllRows ==
    (Filled /\ NotSplit /\ Len(base_tbl) <= ActaCapacity) =>
        \A i \in DOMAIN df_sum.rows :
            \E wr \in WrittenIn(sheets.acta_ch) : ShowsSummary(wr[2], df_sum.rows[i])

\* what the code does: a row with the site key ICA is written only to the
\* sheets 'Acta_Final_Ica' and 'Consolidado_Ica'; without them it is
\* written nowhere, while every CHINCHA row is in the Acta when there is room
IcaRowsNeedIcaSheets ==
    (Filled /\ NotSplit) =>
        /\ \A wr \in WrittenRows : wr[1] = S_CHINCHA /\ SiteOf(wr[2][10]) = S_CHINCHA
        /\ Len(base_tbl) <= ActaCapacity =>
              \A i \in DOMAIN df_sum.rows :
                  SiteOf(df_sum.rows[i]["Sede o Filial"]) = S_CHINCHA =>
                      \E wr \in WrittenIn(sheets.acta_ch) :
                          ShowsSummary(wr[2], df_sum.rows[i])

\* the Consolidado sheets filled block by block, with their template:
\* <<template sheet, sheet now>>
BlockSheets ==
    {pr \in FilledSheets : \E k \in DOMAIN fills : fills[k].sheet = pr[1].title
                                                  /\ fills[k].block > 0}

ThreeBlocks(t) == Cardinality({rw \in DOMAIN t.cells : IsHeaderRow(t.cells[rw])}) = 3

\* the area of a block of the template: the area its own data rows show in
\* column 8, as a letter or as a label of the application, and for a block
\* that shows none the area of its position, A, B, C
BlockArea(t, f) ==
    LET own == {rw \in f.start_row..f.end_row : ExpectedLetter(t.cells[rw][8]) # <<>>}
    IN  IF own # {} THEN ExpectedLetter(t.cells[Min(own)][8]) ELSE <<64 + f.block>>

\* the rows a call has written show only students of the site of the call
\* and of the area of the block
BlockShowsItsArea(pr, k) ==
    \A rw \in fills[k].start_row..(fills[k].start_row + Room(fills[k]) - 1) :
        /\ pr[2].cells[rw][8] = Str(BlockArea(pr[1], fills[k]))
        /\ SiteOf(pr[2].cells[rw][10]) = fills[k].sede_key

\* C11: in a Consolidado sheet with three blocks, each block is filled only
\* with rows of the sheet's site whose area letter is the area of the
\* block: no row of one area is written into the block of another area,
\* whatever the order of the blocks.
C11_BlockFilledWithItsArea ==
    pc \in {"acta_cons", "acta_saved"} =>
        \A pr \in BlockSheets :
            ThreeBlocks(pr[1]) =>
                \A k \in LastFills(pr[1].title) : BlockShowsItsArea(pr, k)

\* every block of the template shows a letter A, B or C in column 8 of its
\* first data row
LetterLabelled(t) ==
    \A rw \in DOMAIN t.cells :
        IsHeaderRow(t.cells[rw]) =>
            /\ rw < Len(t.cells)
            /\ t.cells[rw + 1][8] \in {Str(<<65>>), Str(<<66>>), Str(<<67>>)}

FilledOnce(title) ==
    \A k, n \in DOMAIN fills :
        (fills[k].sheet = title /\ fills[n].sheet = title
           /\ fills[k].start_row = fills[n].start_row) => k = n

\* what the code does achieve: when every block shows its letter in its
\* first data row and the sheet is filled for one site, each block gets
\* only rows of its area, in any order of the blocks
LetterBlocksFilledWithTheirArea ==
    pc \in {"acta_cons", "acta_saved"} =>
        \A pr \in BlockSheets :
            (ThreeBlocks(pr[1]) /\ LetterLabelled(pr[1]) /\ FilledOnce(pr[1].title)) =>
                \A k \in LastFills(pr[1].title) :
                    /\ BlockShowsItsArea(pr, k)
                    /\ fills[k].area_blk = BlockArea(pr[1], fills[k])

\* the cell that holds a str of the generated workbook unchanged: an empty
\* str is an empty cell
SameStr(cell, codes) == cell = read_str(codes)

\* a row of the added RESULTADOS sheet holds the generated row
SameResultado(drow, grow) ==
    /\ drow["Apellido(s)"] = read_text(grow.Apellidos)
    /\ drow["Nombre"] = read_text(grow.Nombre)
    /\ SameStr(drow["Numero de DNI"], grow.Numero_de_DNI)
    /\ SameStr(drow["Programa Academico"], grow.Programa_Academico)
    /\ SameStr(drow["Sede o Filial"], grow.Sede_o_Filial)
    /\ SameStr(drow["Area"], AreaCodes(grow.Area))
    /\ drow["_attemptid"] = IntV(grow.attemptid)
    /\ drow["PUNTAJE"] = Num(grow.PUNTAJE)

\* a row of the added RESUMEN sheet holds the generated row
SameResumen(drow, grow) ==
    /\ drow["Apellidos y nombres"] = Text(grow.Apellidos_y_nombres)
    /\ SameStr(drow["DNI"], grow.DNI)
    /\ SameStr(drow["Programa Academico"], grow.Programa_Academico)
    /\ SameStr(drow["Sede o Filial"], grow.Sede_o_Filial)
    /\ SameStr(drow["Area"], AreaCodes(grow.Area))
    /\ drow["Asistencia"] = Text(grow.Asistencia)
    /\ drow["TOTAL"] = Num(grow.TOTAL)
    /\ drow["CONDICION"] = read_text(grow.CONDICION)

\* the sheets of the template that are not named RESULTADOS or RESUMEN,
\* as they are after the filling
OtherSheets(wbk) ==
    LET Other_(ws) == ws.title \notin {N_RESULTADOS, N_RESUMEN}
    IN  SelectSeq(wbk, Other_)

Saved == pc = "acta_saved" /\ acta_args.output_add_resultados_resumen

\* the two sheets are added in front of the template's other sheets, with
\* the columns of the generated sheets and one row per generated row
SheetsAdded ==
    /\ Len(wb) = 2 + Len(OtherSheets(acta_args.modelo))
    /\ wb[1].title = N_RESULTADOS
    /\ wb[2].title = N_RESUMEN
    /\ \A j \in 3..Len(wb) :
          /\ wb[j].title = OtherSheets(acta_args.modelo)[j - 2].title
          /\ "cells" \in DOMAIN wb[j]
    /\ wb[1].columns = RES_COLS
    /\ wb[2].columns = SUM_COLS
    /\ Len(wb[1].data) = Len(xlsx.RESULTADOS)
    /\ Len(wb[2].data) = Len(xlsx.RESUMEN)

\* C18: with output_add_resultados_resumen the saved workbook has a sheet
\* 'RESULTADOS' at position 0 and a sheet 'RESUMEN' at position 1 with the
\* columns and the rows of the generated workbook, without '_dni_norm';
\* template sheets of those names are replaced and every other template
\* sheet is still there.
C18_GeneratedSheetsAdded ==
    Saved =>
        /\ SheetsAdded
        /\ \A i \in DOMAIN wb[1].data : SameResultado(wb[1].data[i], xlsx.RESULTADOS[i])
        /\ \A i \in DOMAIN wb[2].data : SameResumen(wb[2].data[i], xlsx.RESUMEN[i])

\* the value of a DNI cell as a number, when it is one
DniNumber(cell) == IF cell.kind \in {"int", "f64"} THEN cell.x ELSE -1

\* what the code does give: the sheets are added as the claim says, and the
\* rows are the generated rows as pd.read_excel read them: a DNI column
\* whose texts are all numerals comes back as numbers, '012' as 12
AddedAsRead ==
    Saved =>
        /\ SheetsAdded
        /\ \A i \in DOMAIN wb[1].data :
              \/ SameResultado(wb[1].data[i], xlsx.RESULTADOS[i])
              \/ /\ SameResultado([wb[1].data[i] EXCEPT
                                     !["Numero de DNI"] = read_str(xlsx.RESULTADOS[i].Numero_de_DNI)],
                                  xlsx.RESULTADOS[i])
                 /\ DniNumber(wb[1].data[i]["Numero de DNI"])
                       = DigitsValue(xlsx.RESULTADOS[i].Numero_de_DNI)
        /\ \A i \in DOMAIN wb[2].data :
              \/ SameResumen(wb[2].data[i], xlsx.RESUMEN[i])
              \/ /\ SameResumen([wb[2].data[i] EXCEPT !["DNI"] = read_str(xlsx.RESUMEN[i].DNI)],
                                xlsx.RESUMEN[i])
                 /\ DniNumber(wb[2].data[i]["DNI"]) = DigitsValue(xlsx.RESUMEN[i].DNI)

====
